---- MODULE Spec2Model ----
(***************************************************************************)
(* CommitRevealVRF: the commit-reveal registry contract (commit, reveal,   *)
(* multiReveal, revealCallback) on a ledger that mines blocks, with the    *)
(* operator role of AccessControl.  Hashes are modelled as injective       *)
(* constructors over their packed arguments.                               *)
(***************************************************************************)
EXTENDS Integers, Sequences, FiniteSets, Bags, TLC

\* ---------------------------------------------------------------- bounds
\* heights and ledger times explored, the largest constructor argument
\* confirmations, the number of SeedCommitted events, the longest batch, the
\* number of polling cycles of the watcher that are in progress together, and
\* for the relayer the heights of its ledger, the largest confirmations, the
\* number of SeedCommitted logs in one block and the number of seeds the
\* /commit endpoint stores
MaxHeight == 3
MaxTime == 3
MaxConfirmations == 1
MaxCommits == 2
MaxBatch == 2
MaxCycles == 2
MaxBlocks == 4
MaxWait == 2
MaxLogs == 2
MaxRequests == 1

\* the attempts of one height query that are followed
MaxAttempts == 4

\* ------------------------------------------------------- value universes
Raw(n) == <<"raw", n>>

Zero32 == Raw(0)

ZeroAddress == "0x0"

Addresses == {"operator", "guest"}

\* the requester secrets and the operator secrets the transactions draw from
UserSeeds == {Raw(1)}

OperatorSeeds == {Raw(2), Raw(3)}

Expirations == {2}

\* keccak256(abi.encodePacked(...)) over the tuple of packed fixed-width fields
Keccak(packed) == <<"keccak", packed>>

\* blockhash(n)
BlockHash(n) == <<"blockhash", n>>

\* the operatorSeedHash values commits are made with: the hash of the first
\* operator secret (the other secret is the one that does not match)
SeedHashes == {Keccak(<<Raw(2)>>)}

\* variant: the expiration is not part of the hashed data
CommitIdOf_without_expiration(userSeed, operatorSeedHash, sender, expiration) ==
  Keccak(<<Keccak(<<userSeed>>), operatorSeedHash, sender, 0>>)

\* variant: msg.sender is not part of the hashed data
CommitIdOf_without_sender(userSeed, operatorSeedHash, sender, expiration) ==
  Keccak(<<Keccak(<<userSeed>>), operatorSeedHash, ZeroAddress, expiration>>)

\* operatorDataHash of commit(): the message hash and the commit identifier
CommitIdOf(userSeed, operatorSeedHash, sender, expiration) ==
  Keccak(<<Keccak(<<userSeed>>), operatorSeedHash, sender, expiration>>)

CommitIds ==
  {CommitIdOf(u, oh, a, e) : u \in UserSeeds, oh \in SeedHashes, a \in Addresses, e \in Expirations}

\* ECDSA.toEthSignedMessageHash
ToEthSignedMessageHash(hash) == <<"ethsigned", hash>>

\* a signature produced by signer.signMessage(getBytes(hash))
SignMessage(signer, hash) == [signer |-> signer, digest |-> ToEthSignedMessageHash(hash)]

Signatures == {SignMessage(a, id) : a \in Addresses, id \in CommitIds}

\* variant: the signer is taken from the signature whatever digest it signs
Recover_any_digest(digest, signature) == signature.signer

\* ECDSA.recover: the signer when the digest is the signed one, otherwise an
\* unrelated address
Recover(digest, signature) ==
  IF signature.digest = digest THEN signature.signer ELSE "0xrecovered"

\* the Commit struct and its zero value (an absent mapping slot)
Commit(userSeed, operatorSeedHash, commitOwner, commitBlock) ==
  [userSeed |-> userSeed, operatorSeedHash |-> operatorSeedHash,
   commitOwner |-> commitOwner, commitBlock |-> commitBlock]

ZeroCommit == Commit(Zero32, Zero32, ZeroAddress, 0)

\* uint96(n): block.number + CONFIRMATIONS stays far below 2^96, the cast keeps n
Uint96(n) == n

\* ------------------------------------------------------------------ state
\* blockNumber: block.number of the block being built
\* timestamp: block.timestamp of that block
\* CONFIRMATIONS: immutable, set by the constructor
\* commits: mapping(bytes32 commitId => Commit)
\* operatorRole: the accounts for which hasRole(OPERATOR_ROLE, .) is true
\* logs: event log of the contract, as the number of SeedCommitted events and
\*       the commitIds of the SeedRevealed events
\* lastTx: outcome of the last transaction sent to the contract
\* chain: the SeedCommitted logs of every block, by height; the last block is
\*        the one being built, the ones before it are mined
\* fetcher: the EventFetcher instance with its polling cycles in progress
\* signals: what the EventFetcher emitted in its last step and the height of
\*          the last 'block' signal it has emitted (0: none yet)
\* listener: the state of listener(): its configuration, blockNumber,
\*           pendingCommits and the handlers in progress
\* redis: the keys of the Redis server with their values
\* result: what the last call into the operator's process, listener() or the
\*         /commit handler, threw or answered
VARIABLES blockNumber, timestamp, CONFIRMATIONS, commits, operatorRole, logs, lastTx, chain, fetcher, signals, listener, redis, result

vars == <<blockNumber, timestamp, CONFIRMATIONS, commits, operatorRole, logs, lastTx, chain, fetcher, signals, listener, redis, result>>

\* the variables of the relayer, which the contract alone leaves as they are
relayerVars == <<chain, fetcher, signals, listener, redis, result>>

\* the variables of the contract and its ledger
contractVars == <<blockNumber, timestamp, CONFIRMATIONS, commits, operatorRole, logs, lastTx>>

\* new EventFetcher(event): no timer; 0 stands for a block number that is undefined
EventFetcher ==
  [_timer |-> "unset", _firstBlock |-> 0, _lastBlock |-> 0, _liveBlock |-> 0, cycles |-> EmptyBag]

NoSignals == [last |-> <<>>, block |-> 0]

\* listener() has not been called
NoListener ==
  [attached |-> FALSE, confirmations |-> 0, blockNumber |-> 0, pendingCommits |-> <<>>,
   handlers |-> EmptyBag, submitted |-> <<>>]

\* the relayer is not running and no block has been mined
\* nothing was called yet; a call that returns has the error <<"ok">>
NoResult == [call |-> "none", args |-> <<>>, error |-> <<"ok">>, json |-> <<>>]

RelayerOff ==
  /\ chain = << <<>> >>
  /\ fetcher = EventFetcher
  /\ signals = NoSignals
  /\ listener = NoListener
  /\ redis = {}
  /\ result = NoResult

NoTx == [op |-> "none", sender |-> ZeroAddress, args |-> <<>>, err |-> <<"ok">>, done |-> 0,
         loaded |-> ZeroCommit, events |-> <<>>, hooks |-> <<>>]

\* the execution context of one transaction: storage, emitted events, hook calls,
\* the number of _reveal calls that have returned and the struct _reveal read last
Ctx(c) == [commits |-> c, events |-> <<>>, hooks |-> <<>>, done |-> 0,
           loaded |-> ZeroCommit, err |-> <<"ok">>]

Failed(ctx) == ctx.err # <<"ok">>

Revert(ctx, err) == [ctx EXCEPT !.err = err]

Return(ctx) == [ctx EXCEPT !.done = @ + 1]

Emit(ctx, event) == [ctx EXCEPT !.events = Append(@, event)]

\* variant: the event carries the hash of the user's seed
SeedCommitted_hashed(commitId, userSeed, operatorSeedHash, commitOwner) ==
  [name |-> "SeedCommitted", commitId |-> commitId, userSeed |-> Keccak(<<userSeed>>),
   operatorSeedHash |-> operatorSeedHash, commitOwner |-> commitOwner]

SeedCommitted(commitId, userSeed, operatorSeedHash, commitOwner) ==
  [name |-> "SeedCommitted", commitId |-> commitId, userSeed |-> userSeed,
   operatorSeedHash |-> operatorSeedHash, commitOwner |-> commitOwner]

SeedRevealed(commitId, operatorSeed, randomSeed) ==
  [name |-> "SeedRevealed", commitId |-> commitId, operatorSeed |-> operatorSeed,
   randomSeed |-> randomSeed]

\* ------------------------------------------------------------ the contract
\* the conditions of the revert statements of commit() and _reveal()
CommitAlreadyExists(stored) == stored.commitBlock # 0

\* variant: the expiration instant itself counts as expired
ExpiredCommitSignature_inclusive(time, expiration) == time >= expiration

ExpiredCommitSignature(time, expiration) == time > expiration

InvalidCommitSignature(signer, roleHolders) == ~(signer \in roleHolders)

\* variant: the existence check is missing
CommitDoesNotExist_never(stored) == FALSE

CommitDoesNotExist(stored) == stored.commitBlock = 0

\* variant: the reveal has to come strictly after commitBlock
InvalidRevealBlock_inclusive(number, commitBlock) == number <= commitBlock

InvalidRevealBlock(number, commitBlock) == number < commitBlock

\* variant: the seed is not compared with the stored hash
InvalidOperatorSeed_never(operatorSeed, operatorSeedHash) == FALSE

InvalidOperatorSeed(operatorSeed, operatorSeedHash) ==
  Keccak(<<operatorSeed>>) # operatorSeedHash

\* commit(userSeed, operatorSeedHash, expiration, signature), msg.sender = sender
\* variant: commit() without the CommitAlreadyExists check
commit_overwriting(ctx, sender, userSeed, operatorSeedHash, expiration, signature, number, time, roleHolders) ==
  LET operatorDataHash == CommitIdOf(userSeed, operatorSeedHash, sender, expiration)
      signer == Recover(ToEthSignedMessageHash(operatorDataHash), signature)
  IN  IF ExpiredCommitSignature(time, expiration)
        THEN Revert(ctx, <<"ExpiredCommitSignature", operatorDataHash>>)
      ELSE IF InvalidCommitSignature(signer, roleHolders)
        THEN Revert(ctx, <<"InvalidCommitSignature", operatorDataHash>>)
      ELSE Emit([ctx EXCEPT !.commits[operatorDataHash] =
                   Commit(userSeed, operatorSeedHash, sender, Uint96(number + CONFIRMATIONS))],
                SeedCommitted(operatorDataHash, userSeed, operatorSeedHash, sender))

commit(ctx, sender, userSeed, operatorSeedHash, expiration, signature, number, time, roleHolders) ==
  LET operatorDataHash == CommitIdOf(userSeed, operatorSeedHash, sender, expiration)
      signer == Recover(ToEthSignedMessageHash(operatorDataHash), signature)
  IN  IF CommitAlreadyExists(ctx.commits[operatorDataHash])
        THEN Revert(ctx, <<"CommitAlreadyExists", operatorDataHash>>)
      ELSE IF ExpiredCommitSignature(time, expiration)
        THEN Revert(ctx, <<"ExpiredCommitSignature", operatorDataHash>>)
      ELSE IF InvalidCommitSignature(signer, roleHolders)
        THEN Revert(ctx, <<"InvalidCommitSignature", operatorDataHash>>)
      ELSE Emit([ctx EXCEPT !.commits[operatorDataHash] =
                   Commit(userSeed, operatorSeedHash, sender, Uint96(number + CONFIRMATIONS))],
                SeedCommitted(operatorDataHash, userSeed, operatorSeedHash, sender))

\* variant: the hash of the reveal block itself, which blockhash() does not know yet
RandomSeed_current_block(userSeed, operatorSeed, number) ==
  Keccak(<<userSeed, operatorSeed, Zero32>>)

\* the random seed of _reveal: keccak256(abi.encodePacked(_commit.userSeed,
\* operatorSeed, blockhash(block.number - 1)))
RandomSeed(userSeed, operatorSeed, number) ==
  Keccak(<<userSeed, operatorSeed, BlockHash(number - 1)>>)

\* revealCallback(commitId, randomSeed): the overridable hook; the call is
\* recorded together with what the hook reads from commits(commitId)
revealCallback(ctx, commitId, randomSeed) ==
  [ctx EXCEPT !.hooks = Append(@, [commitId |-> commitId, randomSeed |-> randomSeed,
                                   commit |-> ctx.commits[commitId]])]

\* variant: _reveal calling revealCallback before it deletes the record
_reveal_callback_first(ctx0, commitId, operatorSeed, number) ==
  LET _commit == ctx0.commits[commitId]
      ctx == [ctx0 EXCEPT !.loaded = _commit]
      randomSeed == RandomSeed(_commit.userSeed, operatorSeed, number)
      called == revealCallback(ctx, commitId, randomSeed)
  IN  IF CommitDoesNotExist(_commit)
        THEN Revert(ctx, <<"CommitDoesNotExist", commitId>>)
      ELSE IF InvalidRevealBlock(number, _commit.commitBlock)
        THEN Revert(ctx, <<"InvalidRevealBlock", commitId, _commit.commitBlock, number>>)
      ELSE IF InvalidOperatorSeed(operatorSeed, _commit.operatorSeedHash)
        THEN Revert(ctx, <<"InvalidOperatorSeed", commitId, _commit.operatorSeedHash, operatorSeed>>)
      ELSE Return(Emit([called EXCEPT !.commits[commitId] = ZeroCommit],
                       SeedRevealed(commitId, operatorSeed, randomSeed)))

\* _reveal(commitId, operatorSeed)
_reveal(ctx0, commitId, operatorSeed, number) ==
  LET _commit == ctx0.commits[commitId]
      ctx == [ctx0 EXCEPT !.loaded = _commit]
      randomSeed == RandomSeed(_commit.userSeed, operatorSeed, number)
  IN  IF CommitDoesNotExist(_commit)
        THEN Revert(ctx, <<"CommitDoesNotExist", commitId>>)
      ELSE IF InvalidRevealBlock(number, _commit.commitBlock)
        THEN Revert(ctx, <<"InvalidRevealBlock", commitId, _commit.commitBlock, number>>)
      ELSE IF InvalidOperatorSeed(operatorSeed, _commit.operatorSeedHash)
        THEN Revert(ctx, <<"InvalidOperatorSeed", commitId, _commit.operatorSeedHash, operatorSeed>>)
      ELSE Return(revealCallback(
             Emit([ctx EXCEPT !.commits[commitId] = ZeroCommit],
                  SeedRevealed(commitId, operatorSeed, randomSeed)),
             commitId, randomSeed))

\* variant: the modifier is missing
onlyRole_open(ctx, sender, roleHolders) == ctx

\* modifier onlyRole(OPERATOR_ROLE)
onlyRole(ctx, sender, roleHolders) ==
  IF sender \in roleHolders THEN ctx ELSE Revert(ctx, <<"AccessControl", sender>>)

\* reveal(commitId, operatorSeed)
reveal(ctx, sender, commitId, operatorSeed, number, roleHolders) ==
  LET checked == onlyRole(ctx, sender, roleHolders)
  IN  IF Failed(checked) THEN checked ELSE _reveal(checked, commitId, operatorSeed, number)

\* variant: an entry whose _reveal fails is skipped and the loop goes on
RECURSIVE multiRevealLoop_skipping(_, _, _, _)
multiRevealLoop_skipping(ctx, reveals, i, number) ==
  IF i > Len(reveals) THEN ctx
  ELSE LET next == _reveal(ctx, reveals[i].commitId, reveals[i].operatorSeed, number)
       IN  multiRevealLoop_skipping(IF Failed(next) THEN ctx ELSE next, reveals, i + 1, number)

\* the for loop of multiReveal from index i on; a revert ends the call
RECURSIVE multiRevealLoop(_, _, _, _)
multiRevealLoop(ctx, reveals, i, number) ==
  IF i > Len(reveals) THEN ctx
  ELSE LET next == _reveal(ctx, reveals[i].commitId, reveals[i].operatorSeed, number)
       IN  IF Failed(next) THEN next ELSE multiRevealLoop(next, reveals, i + 1, number)

\* multiReveal(reveals)
multiReveal(ctx, sender, reveals, number, roleHolders) ==
  LET checked == onlyRole(ctx, sender, roleHolders)
  IN  IF Failed(checked) THEN checked ELSE multiRevealLoop(checked, reveals, 1, number)

\* ------------------------------------------------------------ transactions
Names(events, name) == {i \in 1..Len(events) : events[i].name = name}

\* the event log after the events of a transaction are appended to it
Logged(log, events) ==
  [committed |-> log.committed + Cardinality(Names(events, "SeedCommitted")),
   revealed |-> log.revealed \cup {events[i].commitId : i \in Names(events, "SeedRevealed")}]

\* variant: the storage writes of a reverted call stay
Storage_kept(ctx, before) == ctx.commits

\* a transaction's effects are kept when it returns and discarded when it reverts
Storage(ctx, before) == IF Failed(ctx) THEN before ELSE ctx.commits

Receipt(op, sender, args, ctx) ==
  [op |-> op, sender |-> sender, args |-> args, err |-> ctx.err, done |-> ctx.done, loaded |-> ctx.loaded,
   events |-> IF Failed(ctx) THEN <<>> ELSE ctx.events,
   hooks |-> IF Failed(ctx) THEN <<>> ELSE ctx.hooks]

Execute(op, sender, args, ctx) ==
  /\ commits' = Storage(ctx, commits)
  /\ logs' = IF Failed(ctx) THEN logs ELSE Logged(logs, ctx.events)
  /\ logs'.committed <= MaxCommits
  /\ lastTx' = Receipt(op, sender, args, ctx)
  /\ UNCHANGED <<blockNumber, timestamp, CONFIRMATIONS, operatorRole>>
  /\ UNCHANGED relayerVars

CommitTx(sender, userSeed, operatorSeedHash, expiration, signature) ==
  Execute("commit", sender, <<CommitIdOf(userSeed, operatorSeedHash, sender, expiration)>>,
          commit(Ctx(commits), sender, userSeed, operatorSeedHash, expiration, signature,
                 blockNumber, timestamp, operatorRole))

RevealTx(sender, commitId, operatorSeed) ==
  Execute("reveal", sender, <<commitId, operatorSeed>>,
          reveal(Ctx(commits), sender, commitId, operatorSeed, blockNumber, operatorRole))

MultiRevealTx(sender, reveals) ==
  Execute("multiReveal", sender, <<Len(reveals)>>,
          multiReveal(Ctx(commits), sender, reveals, blockNumber, operatorRole))

\* variant: the records whose signature has expired are swept with the block
MineBlock_sweeping ==
  /\ blockNumber < MaxHeight
  /\ blockNumber' = blockNumber + 1
  /\ \E t \in (timestamp + 1)..MaxTime :
       /\ timestamp' = t
       /\ commits' = [id \in DOMAIN commits |->
                        IF \A expiration \in Expirations : t > expiration
                          THEN ZeroCommit ELSE commits[id]]
  /\ lastTx' = NoTx
  /\ UNCHANGED <<CONFIRMATIONS, operatorRole, logs>>
  /\ UNCHANGED relayerVars

\* the ledger closes the block and opens the next one, at a later time
MineBlock ==
  /\ blockNumber < MaxHeight
  /\ blockNumber' = blockNumber + 1
  /\ \E t \in (timestamp + 1)..MaxTime : timestamp' = t
  /\ lastTx' = NoTx
  /\ UNCHANGED <<CONFIRMATIONS, commits, operatorRole, logs>>
  /\ UNCHANGED relayerVars

\* AccessControl.grantRole(OPERATOR_ROLE, account) sent by the admin
GrantRole(account) ==
  /\ account \notin operatorRole
  /\ operatorRole' = operatorRole \cup {account}
  /\ lastTx' = NoTx
  /\ UNCHANGED <<blockNumber, timestamp, CONFIRMATIONS, commits, logs>>
  /\ UNCHANGED relayerVars

\* AccessControl.revokeRole(OPERATOR_ROLE, account) sent by the admin
RevokeRole(account) ==
  /\ account \in operatorRole
  /\ operatorRole' = operatorRole \ {account}
  /\ lastTx' = NoTx
  /\ UNCHANGED <<blockNumber, timestamp, CONFIRMATIONS, commits, logs>>
  /\ UNCHANGED relayerVars

Reveals == [commitId : CommitIds, operatorSeed : OperatorSeeds]

Batches == UNION {[1..n -> Reveals] : n \in 0..MaxBatch}

\* the accounts the admin grants the operator role to and revokes it from
Operators == {"operator"}

\* constructor(operator, confirmations)
Init ==
  /\ blockNumber = 1
  /\ timestamp = 1
  /\ CONFIRMATIONS \in 0..MaxConfirmations
  /\ commits = [id \in CommitIds |-> ZeroCommit]
  /\ operatorRole = Operators
  /\ logs = [committed |-> 0, revealed |-> {}]
  /\ lastTx = NoTx
  /\ RelayerOff

Next ==
  \/ \E sender \in Addresses, userSeed \in UserSeeds, operatorSeedHash \in SeedHashes,
        expiration \in Expirations, signature \in Signatures :
       CommitTx(sender, userSeed, operatorSeedHash, expiration, signature)
  \/ \E sender \in Addresses, commitId \in CommitIds, operatorSeed \in OperatorSeeds :
       RevealTx(sender, commitId, operatorSeed)
  \/ \E sender \in Addresses, reveals \in Batches : MultiRevealTx(sender, reveals)
  \/ MineBlock
  \/ \E account \in Operators : GrantRole(account)
  \/ \E account \in Operators : RevokeRole(account)

Spec == Init /\ [][Next]_vars

\* the registry with the operator role as the constructor granted it: commits
\* and reveals of any account, and the ledger mining
NextRegistry ==
  \/ \E sender \in Addresses, userSeed \in UserSeeds, operatorSeedHash \in SeedHashes,
        expiration \in Expirations, signature \in Signatures :
       CommitTx(sender, userSeed, operatorSeedHash, expiration, signature)
  \/ \E sender \in Addresses, commitId \in CommitIds, operatorSeed \in OperatorSeeds :
       RevealTx(sender, commitId, operatorSeed)
  \/ \E sender \in Addresses, reveals \in Batches : MultiRevealTx(sender, reveals)
  \/ MineBlock

SpecRegistry == Init /\ [][NextRegistry]_vars

\* ------------------------------------------------- the commit identifier
\* commit() called with two argument tuples in two ledger states, to compare
\* the identifiers it returns
IdUserSeeds == {Raw(1), Raw(4)}

IdSeedHashes == {Keccak(<<Raw(2)>>), Keccak(<<Raw(3)>>)}

IdExpirations == {2, 3}

\* (userSeed, operatorSeedHash, msg.sender, expiration)
IdInputs ==
  [userSeed : IdUserSeeds, operatorSeedHash : IdSeedHashes, sender : Addresses,
   expiration : IdExpirations]

IdCommitIds ==
  {CommitIdOf(in.userSeed, in.operatorSeedHash, in.sender, in.expiration) : in \in IdInputs}

\* a commits mapping in which the records of the identifiers in live exist
IdStorage(live) ==
  [id \in IdCommitIds |->
     IF id \in live THEN Commit(Raw(1), Keccak(<<Raw(2)>>), "guest", 1) ELSE ZeroCommit]

\* commit() called with the arguments in, signed by the operator, at a height
\* and ledger time, on a mapping where the records in live other than its own exist
IdCommit(in, live, number, time) ==
  LET id == CommitIdOf(in.userSeed, in.operatorSeedHash, in.sender, in.expiration)
  IN  commit(Ctx(IdStorage(live \ {id})), in.sender, in.userSeed, in.operatorSeedHash,
             in.expiration, SignMessage("operator", id), number, time, operatorRole)

\* return operatorDataHash: the identifier of the record and of the event
Returned(ctx) == ctx.events[1].commitId

InitCommitId ==
  /\ blockNumber \in 1..MaxHeight
  /\ timestamp \in 1..MaxTime
  /\ CONFIRMATIONS \in 0..MaxConfirmations
  /\ commits = [id \in CommitIds |-> ZeroCommit]
  /\ operatorRole = Operators
  /\ logs = [committed |-> 0, revealed |-> {}]
  /\ \E a, b \in IdInputs : lastTx = [NoTx EXCEPT !.op = "inputs", !.args = <<a, b>>]
  /\ RelayerOff

\* the first tuple is committed in the ledger state of this module's variables
\* on an empty mapping, the second one at another height and time on a mapping
\* that holds the records in live
CommitPair(number, time, live) ==
  /\ lastTx.op = "inputs"
  /\ LET a == lastTx.args[1]
         b == lastTx.args[2]
         first == IdCommit(a, {}, blockNumber, timestamp)
         second == IdCommit(b, live, number, time)
     IN  /\ ~Failed(first) /\ ~Failed(second)
         /\ lastTx' = [NoTx EXCEPT !.op = "ids",
                                   !.args = <<a, Returned(first), b, Returned(second)>>]
  /\ UNCHANGED <<blockNumber, timestamp, CONFIRMATIONS, commits, operatorRole, logs>>
  /\ UNCHANGED relayerVars

NextCommitId ==
  \E number \in 1..MaxHeight, time \in 1..MaxTime, live \in {{}, IdCommitIds} :
    CommitPair(number, time, live)

SpecCommitId == InitCommitId /\ [][NextCommitId]_vars

\* variant: the block that is being built counts as mined
getBlockNumber_pending == Len(chain)

\* ------------------------------------------------------------ the watcher
\* EventFetcher: a timer starts a polling cycle (_eventFetcher) every second; a
\* cycle runs up to its next await and goes on when the provider answers
\* provider.getBlockNumber(): the height of the last mined block
getBlockNumber == Len(chain) - 1

\* this.emit(name, ...args)
Emitted(name, args) == [name |-> name, args |-> args]

\* the EventFetcher after a step and the signals it emitted in the step
Result(f, out) == [f |-> f, out |-> out]

\* one more and one less of the cycles, or handlers, in progress
With(bag, e) == bag (+) SetToBag({e})

Without(bag, e) == bag (-) SetToBag({e})

\* the answer to a provider call: the promise resolves with a value or rejects
Resolved(value) == [ok |-> TRUE, value |-> value]

Rejected == [ok |-> FALSE, value |-> 0]

\* a polling cycle waiting for the answer to a provider call
Call(pc, number) == [pc |-> pc, errors |-> 0, blockNumber |-> number]

\* get started(): !!this._timer
started(f) == f._timer # "unset"

\* start(provider, contract, firstBlock)
start(f, firstBlock) ==
  IF started(f) THEN Result(f, <<>>)
  ELSE Result([f EXCEPT !._firstBlock = firstBlock, !._lastBlock = 0, !._liveBlock = 0,
                        !._timer = "set"],
              <<Emitted("start", <<>>)>>)

\* stop(...args): clearInterval(this._timer) leaves this._timer as it is
stop(f, args) ==
  IF ~started(f) THEN Result(f, <<>>)
  ELSE Result([f EXCEPT !._timer = "cleared"],
              (IF Len(args) > 0 THEN <<Emitted("error", <<args>>)>> ELSE <<>>)
                \o <<Emitted("stop", <<>>)>>)

\* variant: the loops give up after the second error
Retry_twice(errors) == errors < 2

\* while (!block && errors < 3), while (!events && errors < 3)
Retry(errors) == errors < 3

\* _eventFetcher() of a cycle from the choice of blockToHandle to the await in
\* _handleBlock(), or to its return
blockToHandle(f) ==
  IF f._lastBlock = 0
    THEN LET _firstBlock == IF f._firstBlock = 0 THEN f._liveBlock ELSE f._firstBlock
         IN  [f EXCEPT !._firstBlock = _firstBlock,
                       !.cycles = With(@, Call("queryFilter", _firstBlock))]
  ELSE IF f._lastBlock + 1 > f._liveBlock
    THEN f
  ELSE [f EXCEPT !.cycles = With(@, Call("queryFilter", f._lastBlock + 1))]

\* _eventFetcher() up to its first await, as a new cycle
_eventFetcher(f) ==
  IF f._lastBlock = 0 \/ f._liveBlock = 0 \/ f._lastBlock >= f._liveBlock
    THEN [f EXCEPT !.cycles = With(@, Call("getBlockNumber", 0))]
    ELSE blockToHandle(f)

\* _queryBlockNumber() of the cycle when the provider answers, and what
\* _eventFetcher() does with its result
_queryBlockNumber(f, cycle, answer) ==
  LET errors == cycle.errors + 1
      rest == [f EXCEPT !.cycles = Without(@, cycle)]
      warning == Emitted("error", <<"Can't get the block number", "Error">>)
      stopped == stop(rest, <<"Too many errors trying to get the block number">>)
  IN  IF ~answer.ok
        THEN IF Retry(errors)
               THEN Result([rest EXCEPT !.cycles = With(@, [cycle EXCEPT !.errors = errors])],
                           <<warning>>)
               ELSE Result(stopped.f, <<warning>> \o stopped.out)
      ELSE IF answer.value = 0
        THEN Result(f, <<>>)
      ELSE Result(blockToHandle([rest EXCEPT !._liveBlock = answer.value]), <<>>)

\* variant: the 'event' signals come before the 'block' signal
_handleBlock_events_first(f, cycle, events) ==
  LET number == cycle.blockNumber
  IN  Result([f EXCEPT !._lastBlock = f._liveBlock, !.cycles = Without(@, cycle)],
             [k \in 1..Len(events) |->
                Emitted("event", <<events[k].commitId, events[k].userSeed,
                                   events[k].operatorSeedHash, events[k].commitOwner,
                                   [blockNumber |-> number]>>)]
               \o <<Emitted("block", <<number>>)>>)

\* _handleBlock(blockNumber) of the cycle once the events are there
_handleBlock(f, cycle, events) ==
  LET number == cycle.blockNumber
  IN  Result([f EXCEPT !._lastBlock = f._liveBlock, !.cycles = Without(@, cycle)],
             <<Emitted("block", <<number>>)>>
               \o [k \in 1..Len(events) |->
                     Emitted("event", <<events[k].commitId, events[k].userSeed,
                                        events[k].operatorSeedHash, events[k].commitOwner,
                                        [blockNumber |-> number]>>)])

\* `Can't get the events from block ${blockNumber}`
CantGetEvents(number) == "Can't get the events from block " \o ToString(number)

\* variant: giving up on a height moves the cursor past it
_queryBlockEvents_skips(f, cycle, answer) ==
  LET errors == cycle.errors + 1
      rest == [f EXCEPT !.cycles = Without(@, cycle)]
      warning == Emitted("error", <<CantGetEvents(cycle.blockNumber), "Error">>)
      stopped == stop(rest, <<"Too many errors trying to get the block events">>)
  IN  IF ~answer.ok
        THEN IF Retry(errors)
               THEN Result([rest EXCEPT !.cycles = With(@, [cycle EXCEPT !.errors = errors])],
                           <<warning>>)
               ELSE Result([stopped.f EXCEPT !._lastBlock = cycle.blockNumber],
                           <<warning>> \o stopped.out)
      ELSE _handleBlock(f, cycle, answer.value)

\* _queryBlockEvents(blockNumber) of the cycle when the provider answers, and
\* what _handleBlock() does with its result
_queryBlockEvents(f, cycle, answer) ==
  LET errors == cycle.errors + 1
      rest == [f EXCEPT !.cycles = Without(@, cycle)]
      warning == Emitted("error", <<CantGetEvents(cycle.blockNumber), "Error">>)
      stopped == stop(rest, <<"Too many errors trying to get the block events">>)
  IN  IF ~answer.ok
        THEN IF Retry(errors)
               THEN Result([rest EXCEPT !.cycles = With(@, [cycle EXCEPT !.errors = errors])],
                           <<warning>>)
               ELSE Result(stopped.f, <<warning>> \o stopped.out)
      ELSE _handleBlock(f, cycle, answer.value)

\* contract.queryFilter(event, blockNumber, blockNumber)
queryFilter(number) == IF number \in 1..getBlockNumber THEN chain[number] ELSE <<>>

\* the height of the last 'block' signal, after the signals out
BlockOf(block, out) ==
  LET blocks == SelectSeq(out, LAMBDA signal : signal.name = "block")
  IN  IF Len(blocks) = 0 THEN block ELSE blocks[Len(blocks)].args[1]

\* ---------------------------------------------------------- the scheduler
\* listener(): the handlers of the 'block' and 'event' signals; a handler runs
\* up to its next await and goes on when the awaited call answers
\* redisClient.get(commitId) when the key has no value
Null == <<"null", Zero32>>

\* '0x' + operatorSeed.toString('hex'), the string the cache holds, and the
\* bytes32 that contract.reveal() makes of such a string
Hex(bytes) == <<"0x", bytes>>

Bytes32(string) == IF string[1] = "0x" THEN string[2] ELSE Zero32

\* variant: a key without value reads as the zero seed
redisClient_get_default(store, key) ==
  IF \E entry \in store : entry.key = key
    THEN (CHOOSE entry \in store : entry.key = key).value
    ELSE Hex(Zero32)

\* await redisClient.get(key)
redisClient_get(store, key) ==
  IF \E entry \in store : entry.key = key
    THEN (CHOOSE entry \in store : entry.key = key).value
    ELSE Null

\* await redisClient.set(key, value, { EX })
redisClient_set(store, key, value) ==
  {entry \in store : entry.key # key} \cup {[key |-> key, value |-> value]}

\* the nonce of a handler that has not called provider.getTransactionCount()
Unread == -1

\* a handler waiting at an await: the pending entry or the event it works on,
\* and for the 'block' handler the keys its for-in loop has still to visit
Handler(kind, pc, commitId, operatorSeed, number, keys) ==
  [kind |-> kind, pc |-> pc, commitId |-> commitId, operatorSeed |-> operatorSeed,
   blockNumber |-> number, keys |-> keys, nonce |-> Unread]

\* pendingCommits: Record<string, PendingCommit>, its keys in insertion order
PendingCommit(commitId, operatorSeed, confirmationBlock) ==
  [commitId |-> commitId, operatorSeed |-> operatorSeed, confirmationBlock |-> confirmationBlock]

Keys(pending) == [k \in 1..Len(pending) |-> pending[k].commitId]

Has(pending, commitId) == \E k \in 1..Len(pending) : pending[k].commitId = commitId

Entry(pending, commitId) ==
  pending[CHOOSE k \in 1..Len(pending) : pending[k].commitId = commitId]

\* delete pendingCommits[commitId]
Delete(pending, commitId) == SelectSeq(pending, LAMBDA entry : entry.commitId # commitId)

\* pendingCommits[commitId] = entry
Put(pending, entry) ==
  IF Has(pending, entry.commitId)
    THEN [k \in 1..Len(pending) |->
            IF pending[k].commitId = entry.commitId THEN entry ELSE pending[k]]
    ELSE Append(pending, entry)

\* variant: the commit is also put on the pending list
revealCommit_and_queue(l, handler) ==
  [l EXCEPT !.handlers = With(@, handler), !.submitted = Append(@, handler.commitId),
            !.pendingCommits = Put(@, PendingCommit(handler.commitId, handler.operatorSeed,
                                                    handler.blockNumber))]

\* await revealCommit(contract, commitId, operatorSeed, ...): the handler calls
\* the helper, which sends the reveal transaction, and waits for it
revealCommit(l, handler) ==
  [l EXCEPT !.handlers = With(@, handler), !.submitted = Append(@, handler.commitId)]

\* await provider.getTransactionCount(await signer.getAddress()): the
\* transactions of the operator account in the mined part of the event log. The
\* account sends reveals only, and a reveal that reverts is refused by the gas
\* estimate of contract.reveal() before it is sent
getTransactionCount(log) == Cardinality(log.revealed)

\* variant: the count includes the transactions that are sent and not yet mined
Nonce_pending(l, count) ==
  count + Cardinality({handler \in BagToSet(l.handlers) :
                         handler.pc = "revealCommit" /\ handler.nonce # Unread})

\* { nonce: await provider.getTransactionCount(...) }: the value a handler that
\* enters revealCommit passes, where count is what the provider answers
Nonce(l, count) == count

\* the handler that entered revealCommit in this step holds the nonce it read
Stamp(l, count) ==
  LET entered == {handler \in BagToSet(l.handlers) :
                    handler.pc = "revealCommit" /\ handler.nonce = Unread}
  IN  IF entered = {} THEN l
      ELSE LET handler == CHOOSE handler \in entered : TRUE
           IN  [l EXCEPT !.handlers =
                  With(Without(@, handler), [handler EXCEPT !.nonce = Nonce(l, count)])]

\* if (args.nonce) overrides.nonce = args.nonce: a nonce of 0 is not passed on
\* and the signer chooses the nonce of the transaction
Overrides(handler) == handler.pc = "revealCommit" /\ handler.nonce > 0

\* variant: the reveals of a pass are started without awaiting each other
RECURSIVE forIn_concurrent(_, _)
forIn_concurrent(l, keys) ==
  IF Len(keys) = 0 THEN l
  ELSE IF ~Has(l.pendingCommits, Head(keys)) THEN forIn_concurrent(l, Tail(keys))
  ELSE LET commitId == Head(keys)
           pendingCommit == Entry(l.pendingCommits, commitId)
       IN  IF pendingCommit.confirmationBlock <= l.blockNumber
             THEN forIn_concurrent(
                    revealCommit(l, Handler("block", "revealCommit", commitId,
                                            pendingCommit.operatorSeed, l.blockNumber, <<>>)),
                    Tail(keys))
             ELSE forIn_concurrent(l, Tail(keys))

\* the for-in loop of the 'block' handler over the keys it has still to visit,
\* up to its next await; a key deleted in the meantime is not visited
RECURSIVE forIn(_, _)
forIn(l, keys) ==
  IF Len(keys) = 0 THEN l
  ELSE IF ~Has(l.pendingCommits, Head(keys)) THEN forIn(l, Tail(keys))
  ELSE LET commitId == Head(keys)
           pendingCommit == Entry(l.pendingCommits, commitId)
       IN  IF pendingCommit.confirmationBlock <= l.blockNumber
             THEN revealCommit(l, Handler("block", "revealCommit", commitId,
                                          pendingCommit.operatorSeed, l.blockNumber, Tail(keys)))
             ELSE forIn(l, Tail(keys))

\* fetcher.on('block', async (newBlock) => ...) up to its first await
onBlock(l, newBlock) ==
  forIn([l EXCEPT !.blockNumber = newBlock], Keys(l.pendingCommits))

\* the 'block' handler after its revealCommit returned (ok) or threw
onBlock_revealed(l, handler, ok) ==
  LET rest == [l EXCEPT !.handlers = Without(@, handler)]
  IN  forIn(IF ok THEN [rest EXCEPT !.pendingCommits = Delete(@, handler.commitId)] ELSE rest,
            handler.keys)

\* fetcher.on('event', async (commitId, userSeed, operatorSeedHash, commitOwner,
\* event) => ...) up to its first await, redisClient.get(commitId)
onEvent(l, args) ==
  [l EXCEPT !.handlers =
     With(@, Handler("event", "get", args[1], Null, args[5].blockNumber, <<>>))]

\* variant: the readiness height of the contract, commitBlock
ConfirmationBlock_registry(number, confirmations) == number + confirmations

\* event.blockNumber + (confirmations - 1)
ConfirmationBlock(number, confirmations) == number + (confirmations - 1)

\* the 'event' handler after redisClient.get(commitId) returned operatorSeed
onEvent_get(l, handler, operatorSeed) ==
  LET rest == [l EXCEPT !.handlers = Without(@, handler)]
      confirmationBlock == ConfirmationBlock(handler.blockNumber, l.confirmations)
  IN  IF operatorSeed = Null THEN rest
      ELSE IF l.blockNumber >= confirmationBlock
        THEN revealCommit(rest, Handler("event", "revealCommit", handler.commitId,
                                        operatorSeed, handler.blockNumber, <<>>))
      ELSE [rest EXCEPT !.pendingCommits =
              Put(@, PendingCommit(handler.commitId, operatorSeed, confirmationBlock))]

\* the 'event' handler after its revealCommit returned or threw
onEvent_revealed(l, handler, ok) == [l EXCEPT !.handlers = Without(@, handler)]

\* the handlers called by the signals out, in the order of the signals
RECURSIVE Dispatch(_, _)
Dispatch(l, out) ==
  IF ~l.attached \/ Len(out) = 0 THEN l
  ELSE LET signal == Head(out)
           handled == IF signal.name = "block" THEN onBlock(l, signal.args[1])
                      ELSE IF signal.name = "event" THEN onEvent(l, signal.args)
                      ELSE l
       IN  Dispatch(handled, Tail(out))

\* -------------------------------------------------- the steps of the relayer
\* a step of the EventFetcher: its new state, the signals it emitted and the
\* handlers they called
Fetched(r) ==
  /\ fetcher' = r.f
  /\ signals' = [last |-> r.out, block |-> BlockOf(signals.block, r.out)]
  /\ listener' = Stamp(Dispatch(listener, r.out), getTransactionCount(logs))
  /\ UNCHANGED <<chain, redis, result>>
  /\ UNCHANGED contractVars

\* fetcher.start(provider, contract, firstBlock) on a ledger where the block of
\* the deployment is mined
Start(firstBlock) ==
  /\ ~started(fetcher)
  /\ ~listener.attached
  /\ getBlockNumber >= 1
  /\ Fetched(start(fetcher, firstBlock))

\* fetcher.stop()
Stop ==
  /\ started(fetcher)
  /\ Fetched(stop(fetcher, <<>>))

\* variant: the timer goes on firing after clearInterval()
Tick_after_stop ==
  /\ started(fetcher)
  /\ BagCardinality(fetcher.cycles) < MaxCycles
  /\ Fetched(Result(_eventFetcher(fetcher), <<>>))

\* the interval timer fires and calls _eventFetcher()
Tick ==
  /\ fetcher._timer = "set"
  /\ BagCardinality(fetcher.cycles) < MaxCycles
  /\ Fetched(Result(_eventFetcher(fetcher), <<>>))

\* provider.getBlockNumber() answers a cycle
BlockNumberAnswer(cycle, answer) ==
  /\ cycle.pc = "getBlockNumber"
  /\ Fetched(_queryBlockNumber(fetcher, cycle, answer))

\* contract.queryFilter() answers a cycle
EventsAnswer(cycle, ok) ==
  /\ cycle.pc = "queryFilter"
  /\ Fetched(_queryBlockEvents(fetcher, cycle,
               IF ok THEN Resolved(queryFilter(cycle.blockNumber)) ELSE Rejected))

\* the commit the relayer is run with: the guest's seed Raw(1), the hash of
\* the operator's seed Raw(2), a signature that does not expire in the run
RelayerCommitId == CommitIdOf(Raw(1), Keccak(<<Raw(2)>>), "guest", MaxBlocks)

RelayerEvent == SeedCommitted(RelayerCommitId, Raw(1), Keccak(<<Raw(2)>>), "guest")

\* the ledger closes the block being built and opens the next one a second later
Mine ==
  /\ blockNumber < MaxBlocks
  /\ timestamp < MaxBlocks
  /\ blockNumber' = blockNumber + 1
  /\ timestamp' = timestamp + 1
  /\ lastTx' = NoTx
  /\ chain' = Append(chain, <<>>)
  /\ UNCHANGED <<CONFIRMATIONS, commits, operatorRole, logs, fetcher, signals, listener, redis, result>>

\* the SeedCommitted log of the commit enters the block being built (the
\* watcher alone: the contract that emits it is not run); the contract makes
\* a commit once, CommitAlreadyExists
Log ==
  /\ \A number \in 1..Len(chain) : Len(chain[number]) = 0
  /\ chain' = [chain EXCEPT ![Len(chain)] = Append(@, RelayerEvent)]
  /\ UNCHANGED <<fetcher, signals, listener, redis, result>>
  /\ UNCHANGED contractVars

\* the EventFetcher alone, on a ledger whose blocks hold at most one log
InitWatcher ==
  /\ blockNumber = 1
  /\ timestamp = 1
  /\ CONFIRMATIONS = 1
  /\ commits = [id \in {RelayerCommitId} |-> ZeroCommit]
  /\ operatorRole = Operators
  /\ logs = [committed |-> 0, revealed |-> {}]
  /\ lastTx = NoTx
  /\ RelayerOff

NextWatcher ==
  \/ \E firstBlock \in 0..getBlockNumber : Start(firstBlock)
  \/ Stop
  \/ Tick
  \/ \E cycle \in BagToSet(fetcher.cycles), answer \in {Resolved(getBlockNumber), Rejected} :
       BlockNumberAnswer(cycle, answer)
  \/ \E cycle \in BagToSet(fetcher.cycles), ok \in BOOLEAN : EventsAnswer(cycle, ok)
  \/ Log
  \/ Mine

SpecWatcher == InitWatcher /\ [][NextWatcher]_vars

\* the EventFetcher on a ledger whose mined blocks hold up to MaxLogs logs of
\* different commits, in any order
OtherEvent ==
  SeedCommitted(CommitIdOf(Raw(4), Keccak(<<Raw(2)>>), "guest", MaxBlocks), Raw(4),
                Keccak(<<Raw(2)>>), "guest")

Blocks ==
  {<<>>} \cup {<<event>> : event \in {RelayerEvent, OtherEvent}}
         \cup (IF MaxLogs < 2 THEN {}
               ELSE {<<RelayerEvent, OtherEvent>>, <<OtherEvent, RelayerEvent>>})

InitOrder ==
  /\ blockNumber = MaxBlocks - 1
  /\ timestamp = MaxBlocks - 1
  /\ CONFIRMATIONS = 1
  /\ commits = [id \in {RelayerCommitId} |-> ZeroCommit]
  /\ operatorRole = Operators
  /\ logs = [committed |-> 0, revealed |-> {}]
  /\ lastTx = NoTx
  /\ chain \in [1..(MaxBlocks - 1) -> Blocks]
  /\ chain[MaxBlocks - 1] = <<>>
  /\ fetcher = EventFetcher
  /\ signals = NoSignals
  /\ listener = NoListener
  /\ redis = {}
  /\ result = NoResult

NextOrder ==
  \/ \E firstBlock \in 0..getBlockNumber : Start(firstBlock)
  \/ Tick
  \/ \E cycle \in BagToSet(fetcher.cycles) : BlockNumberAnswer(cycle, Resolved(getBlockNumber))
  \/ \E cycle \in BagToSet(fetcher.cycles) : EventsAnswer(cycle, TRUE)

SpecOrder == InitOrder /\ [][NextOrder]_vars

\* the EventFetcher behind a provider whose nodes lag: getBlockNumber() may
\* answer with any height up to the head, also one below an earlier answer
NextHead ==
  \/ \E firstBlock \in 0..getBlockNumber : Start(firstBlock)
  \/ Tick
  \/ \E cycle \in BagToSet(fetcher.cycles), number \in 1..getBlockNumber :
       BlockNumberAnswer(cycle, Resolved(number))
  \/ \E cycle \in BagToSet(fetcher.cycles) : EventsAnswer(cycle, TRUE)
  \/ Mine

SpecHead == InitWatcher /\ [][NextHead]_vars

\* one invocation of _queryBlockNumber at a time, attempt by attempt, on a
\* ledger that starts at height 0: result holds the number of the attempt in
\* the running invocation, and its answer with the errors counted so far
AttemptResult(cycle, answer, number) ==
  [NoResult EXCEPT !.call = "getBlockNumber",
                   !.args = <<number>>,
                   !.json = <<answer.ok, answer.value,
                              IF answer.ok THEN cycle.errors ELSE cycle.errors + 1>>]

Attempts == IF result.call = "getBlockNumber" THEN result.args[1] ELSE 0

Queried(r, answered) ==
  /\ fetcher' = r.f
  /\ signals' = [last |-> r.out, block |-> BlockOf(signals.block, r.out)]
  /\ listener' = Stamp(Dispatch(listener, r.out), getTransactionCount(logs))
  /\ result' = answered
  /\ UNCHANGED <<chain, redis>>
  /\ UNCHANGED contractVars

\* start(provider, contract) without a first block
QueryStart ==
  /\ ~started(fetcher)
  /\ Queried(start(fetcher, 0), NoResult)

\* the timer fires while no cycle is in progress
QueryTick ==
  /\ fetcher._timer = "set"
  /\ fetcher.cycles = EmptyBag
  /\ Queried(Result(_eventFetcher(fetcher), <<>>), NoResult)

\* one pass of the while loop of _queryBlockNumber: the await of
\* getBlockNumber() resolves or rejects
Attempt(cycle, answer) ==
  /\ cycle.pc = "getBlockNumber"
  /\ Attempts < MaxAttempts
  /\ Queried(_queryBlockNumber(fetcher, cycle, answer),
             AttemptResult(cycle, answer, Attempts + 1))

NextQuery ==
  \/ QueryStart
  \/ QueryTick
  \/ \E cycle \in BagToSet(fetcher.cycles), answer \in {Resolved(getBlockNumber), Rejected} :
       Attempt(cycle, answer)
  \/ \E cycle \in BagToSet(fetcher.cycles), ok \in BOOLEAN : EventsAnswer(cycle, ok)
  \/ Mine

SpecQuery == InitWatcher /\ [][NextQuery]_vars

\* ------------------------------------------------------------- the relayer
\* listener() run against the contract: the guest commits, the watcher reads
\* the SeedCommitted logs of the mined blocks, the handlers reveal as operator
\* a transaction is mined into the block being built
Transact(op, sender, args, ctx) ==
  /\ commits' = Storage(ctx, commits)
  /\ logs' = IF Failed(ctx) THEN logs ELSE Logged(logs, ctx.events)
  /\ lastTx' = Receipt(op, sender, args, ctx)
  /\ chain' = IF Failed(ctx) THEN chain
              ELSE [chain EXCEPT ![blockNumber] =
                      @ \o SelectSeq(ctx.events, LAMBDA event : event.name = "SeedCommitted")]
  /\ UNCHANGED <<blockNumber, timestamp, CONFIRMATIONS, operatorRole>>

\* the guest sends the commit the operator signed for it, once
Request ==
  /\ logs.committed = 0
  /\ LET ctx == commit(Ctx(commits), "guest", Raw(1), Keccak(<<Raw(2)>>), MaxBlocks,
                       SignMessage("operator", RelayerCommitId), blockNumber, timestamp,
                       operatorRole)
     IN  Transact("commit", "guest", <<RelayerCommitId>>, ctx)
  /\ UNCHANGED <<fetcher, signals, listener, redis, result>>

\* the address of the deployed contract, and the strings ethers.isAddress()
\* accepts: the accounts of the run and the contract
ContractAddress == "0xvrf"

isAddress(value) == value \in Addresses \cup {ZeroAddress, ContractAddress}

\* variant: only the address is looked at
Validate_address_only(address, confirmations) ==
  IF address = "" \/ ~isAddress(address)
    THEN <<"You must specify a valid contract address.">>
    ELSE <<"ok">>

\* the two checks listener() starts with: what it throws, or <<"ok">>
Validate(address, confirmations) ==
  IF address = "" \/ ~isAddress(address)
    THEN <<"You must specify a valid contract address.">>
  ELSE IF confirmations = 0
    THEN <<"You must specify the number of confirmations required to approve a commit (Minimum 1 block).">>
  ELSE <<"ok">>

\* listener(redisClient, provider, signer, address, confirmations) with the
\* confirmations of the contract, on a ledger where the block of the
\* deployment is mined: the handlers are registered and the fetcher is started
Listen(address, confirmations) ==
  /\ ~listener.attached
  /\ getBlockNumber >= 1
  /\ result' = [NoResult EXCEPT !.call = "listener", !.args = <<address, confirmations>>,
                                !.error = Validate(address, confirmations)]
  /\ IF Validate(address, confirmations) = <<"ok">>
       THEN /\ fetcher' = start(EventFetcher, 0).f
            /\ signals' = [last |-> start(EventFetcher, 0).out, block |-> 0]
            /\ listener' = [NoListener EXCEPT !.attached = TRUE,
                                              !.confirmations = confirmations]
       ELSE UNCHANGED <<fetcher, signals, listener>>
  /\ UNCHANGED <<chain, redis>>
  /\ UNCHANGED contractVars

\* redisClient.get(commitId) answers an 'event' handler
GetAnswer(handler) ==
  /\ handler.pc = "get"
  /\ listener' = Stamp(onEvent_get(listener, handler, redisClient_get(redis, handler.commitId)),
                       getTransactionCount(logs))
  /\ UNCHANGED <<chain, fetcher, signals, redis, result>>
  /\ UNCHANGED contractVars

\* revealCommit() of a handler returns or throws: the reveal transaction was
\* sent by the operator and is mined, or it could not be sent
RevealAnswer(handler, sent) ==
  /\ handler.pc = "revealCommit"
  /\ LET ctx == reveal(Ctx(commits), "operator", handler.commitId,
                       Bytes32(handler.operatorSeed), blockNumber, operatorRole)
         ok == sent /\ ~Failed(ctx)
     IN  /\ IF sent
              THEN Transact("reveal", "operator",
                            <<handler.commitId, Bytes32(handler.operatorSeed)>>, ctx)
              ELSE UNCHANGED <<contractVars, chain>>
         /\ listener' = IF handler.kind = "block"
                          THEN Stamp(onBlock_revealed(listener, handler, ok),
                                     getTransactionCount(logs'))
                          ELSE onEvent_revealed(listener, handler, ok)
  /\ UNCHANGED <<fetcher, signals, redis, result>>

\* constructor(operator, confirmations) with confirmations >= 1
InitRelayer ==
  /\ blockNumber = 1
  /\ timestamp = 1
  /\ CONFIRMATIONS \in 1..MaxWait
  /\ commits = [id \in {RelayerCommitId} |-> ZeroCommit]
  /\ operatorRole = Operators
  /\ logs = [committed |-> 0, revealed |-> {}]
  /\ lastTx = NoTx
  /\ chain = << <<>> >>
  /\ fetcher = EventFetcher
  /\ signals = NoSignals
  /\ listener = NoListener
  /\ redis \in {{}, redisClient_set({}, RelayerCommitId, Hex(Raw(2)))}
  /\ result = NoResult

\* the ledger answers the watcher's queries; the cache holds the seed of the
\* commit or has lost it, listener() is called with a configuration that may
\* be invalid, and a reveal may fail to be sent
NextRelayer ==
  \/ Request
  \/ Mine
  \/ \E address \in {"", "0xZZ", ContractAddress}, confirmations \in {0, CONFIRMATIONS} :
       Listen(address, confirmations)
  \/ Tick
  \/ \E cycle \in BagToSet(fetcher.cycles) : BlockNumberAnswer(cycle, Resolved(getBlockNumber))
  \/ \E cycle \in BagToSet(fetcher.cycles) : EventsAnswer(cycle, TRUE)
  \/ \E handler \in BagToSet(listener.handlers) : GetAnswer(handler)
  \/ \E handler \in BagToSet(listener.handlers), sent \in BOOLEAN : RevealAnswer(handler, sent)

SpecRelayer == InitRelayer /\ [][NextRelayer]_vars

\* the timer fires while no cycle is in progress
RelayerTick ==
  /\ fetcher.cycles = EmptyBag
  /\ Tick

\* the same run with polling cycles that do not overlap: each cycle ends within
\* the second before the timer fires again
NextScheduler ==
  \/ Request
  \/ Mine
  \/ \E address \in {"", "0xZZ", ContractAddress}, confirmations \in {0, CONFIRMATIONS} :
       Listen(address, confirmations)
  \/ RelayerTick
  \/ \E cycle \in BagToSet(fetcher.cycles) : BlockNumberAnswer(cycle, Resolved(getBlockNumber))
  \/ \E cycle \in BagToSet(fetcher.cycles) : EventsAnswer(cycle, TRUE)
  \/ \E handler \in BagToSet(listener.handlers) : GetAnswer(handler)
  \/ \E handler \in BagToSet(listener.handlers), sent \in BOOLEAN : RevealAnswer(handler, sent)

SpecScheduler == InitRelayer /\ [][NextScheduler]_vars

\* the end-to-end run: contract and listener with confirmations = 1, the
\* secret is in the cache, every query is answered and every reveal is sent
InitEndToEnd == InitRelayer /\ CONFIRMATIONS = 1 /\ redis # {}

NextEndToEnd ==
  \/ Request
  \/ Mine
  \/ Listen(ContractAddress, CONFIRMATIONS)
  \/ Tick
  \/ \E cycle \in BagToSet(fetcher.cycles) : BlockNumberAnswer(cycle, Resolved(getBlockNumber))
  \/ \E cycle \in BagToSet(fetcher.cycles) : EventsAnswer(cycle, TRUE)
  \/ \E handler \in BagToSet(listener.handlers) : GetAnswer(handler)
  \/ \E handler \in BagToSet(listener.handlers) : RevealAnswer(handler, TRUE)

\* the ledger keeps producing blocks, the interval timer keeps firing and every
\* awaited promise settles
SpecEndToEnd ==
  /\ InitEndToEnd
  /\ [][NextEndToEnd]_vars
  /\ WF_vars(Mine)
  /\ WF_vars(Tick)
  /\ WF_vars(\E cycle \in BagToSet(fetcher.cycles) :
               BlockNumberAnswer(cycle, Resolved(getBlockNumber)))
  /\ WF_vars(\E cycle \in BagToSet(fetcher.cycles) : EventsAnswer(cycle, TRUE))
  /\ WF_vars(\E handler \in BagToSet(listener.handlers) : GetAnswer(handler))
  /\ WF_vars(\E handler \in BagToSet(listener.handlers) : RevealAnswer(handler, TRUE))

\* the listener with several commits: the guest commits the payloads the
\* operator signed for two user seeds, the cache holds the operator seed of
\* both, the timer fires when the cycle before it has ended, every query is
\* answered, and a reveal is mined or cannot be sent
PassUserSeeds == {Raw(1), Raw(4)}

PassCommitId(userSeed) == CommitIdOf(userSeed, Keccak(<<Raw(2)>>), "guest", MaxBlocks)

PassCommitIds == {PassCommitId(userSeed) : userSeed \in PassUserSeeds}

\* the SeedCommitted logs of the mined and the pending blocks
Committed ==
  UNION {{chain[number][k].commitId : k \in 1..Len(chain[number])} : number \in 1..Len(chain)}

PassRequest(userSeed) ==
  /\ PassCommitId(userSeed) \notin Committed
  /\ LET ctx == commit(Ctx(commits), "guest", userSeed, Keccak(<<Raw(2)>>), MaxBlocks,
                       SignMessage("operator", PassCommitId(userSeed)), blockNumber,
                       timestamp, operatorRole)
     IN  Transact("commit", "guest", <<PassCommitId(userSeed)>>, ctx)
  /\ UNCHANGED <<fetcher, signals, listener, redis, result>>

InitPass ==
  /\ blockNumber = 1
  /\ timestamp = 1
  /\ CONFIRMATIONS \in 1..MaxWait
  /\ commits = [id \in PassCommitIds |-> ZeroCommit]
  /\ operatorRole = Operators
  /\ logs = [committed |-> 0, revealed |-> {}]
  /\ lastTx = NoTx
  /\ chain = << <<>> >>
  /\ fetcher = EventFetcher
  /\ signals = NoSignals
  /\ listener = NoListener
  /\ redis = {[key |-> PassCommitId(userSeed), value |-> Hex(Raw(2))] : userSeed \in PassUserSeeds}
  /\ result = NoResult

NextPass ==
  \/ \E userSeed \in PassUserSeeds : PassRequest(userSeed)
  \/ Mine
  \/ Listen(ContractAddress, CONFIRMATIONS)
  \/ RelayerTick
  \/ \E cycle \in BagToSet(fetcher.cycles) : BlockNumberAnswer(cycle, Resolved(getBlockNumber))
  \/ \E cycle \in BagToSet(fetcher.cycles) : EventsAnswer(cycle, TRUE)
  \/ \E handler \in BagToSet(listener.handlers) : GetAnswer(handler)
  \/ \E handler \in BagToSet(listener.handlers), sent \in BOOLEAN : RevealAnswer(handler, sent)

SpecPass == InitPass /\ [][NextPass]_vars

\* the same with a third commit, CONFIRMATIONS = 1 and every reveal mined: the
\* operator account has sent a transaction before two commits arrive together
NonceUserSeeds == PassUserSeeds \cup {Raw(5)}

InitNonce ==
  /\ blockNumber = 1
  /\ timestamp = 1
  /\ CONFIRMATIONS = 1
  /\ commits = [id \in {PassCommitId(userSeed) : userSeed \in NonceUserSeeds} |-> ZeroCommit]
  /\ operatorRole = Operators
  /\ logs = [committed |-> 0, revealed |-> {}]
  /\ lastTx = NoTx
  /\ chain = << <<>> >>
  /\ fetcher = EventFetcher
  /\ signals = NoSignals
  /\ listener = NoListener
  /\ redis = {[key |-> PassCommitId(userSeed), value |-> Hex(Raw(2))] : userSeed \in NonceUserSeeds}
  /\ result = NoResult

NextNonce ==
  \/ \E userSeed \in NonceUserSeeds : PassRequest(userSeed)
  \/ Mine
  \/ Listen(ContractAddress, CONFIRMATIONS)
  \/ RelayerTick
  \/ \E cycle \in BagToSet(fetcher.cycles) : BlockNumberAnswer(cycle, Resolved(getBlockNumber))
  \/ \E cycle \in BagToSet(fetcher.cycles) : EventsAnswer(cycle, TRUE)
  \/ \E handler \in BagToSet(listener.handlers) : GetAnswer(handler)
  \/ \E handler \in BagToSet(listener.handlers) : RevealAnswer(handler, TRUE)

SpecNonce == InitNonce /\ [][NextNonce]_vars

\* ------------------------------------------------------------ the router
\* router(): the /commit endpoint the requester asks for a signed commit, run
\* against the contract; the clock of the server is the ledger's
\* operatorConfig.expiration, in seconds
OperatorExpiration == 2

\* the seeds requesters commit and the hashes they send to /commit
RouterUserSeeds == {Raw(1), Raw(4)}

\* a `hash` parameter that is not 32 bytes long
ShortHex == <<"short", <<>> >>

\* ethers.isHexString(value, 32): the 32-byte values are the hashes
isHexString(value) == value[1] = "keccak"

\* variant: the hash parameter is hashed once more
OperatorDataHash_rehashed(hash, operatorSeedHash, address, expiration) ==
  Keccak(<<Keccak(<<hash>>), operatorSeedHash, address, expiration>>)

\* keccak256(solidityPacked(['bytes32', 'bytes32', 'address', 'uint256'],
\* [hash, operatorSeedHash, address, expiration]))
OperatorDataHash(hash, operatorSeedHash, address, expiration) ==
  Keccak(<<hash, operatorSeedHash, address, expiration>>)

\* res.json({commit_id, seed_hash, signature, expiration})
Json(commit_id, seed_hash, signature, expiration) ==
  <<commit_id, seed_hash, signature, expiration>>

\* GET or POST /commit?address=&hash=, with the bytes randomBytes(32) returns
\* (the messages are written without the backquotes around the parameter name)
router_handler(address, hash, operatorSeed) ==
  /\ Cardinality(redis) < MaxRequests
  /\ IF address = "" \/ ~isAddress(address)
       THEN /\ result' = [NoResult EXCEPT !.call = "/commit", !.args = <<address, hash>>,
                            !.error = <<"HttpException", 400, "The address parameter is invalid.">>]
            /\ UNCHANGED redis
     ELSE IF ~isHexString(hash)
       THEN /\ result' = [NoResult EXCEPT !.call = "/commit", !.args = <<address, hash>>,
                            !.error = <<"HttpException", 400, "The hash parameter is invalid.">>]
            /\ UNCHANGED redis
     ELSE LET operatorSeedHash == Keccak(<<operatorSeed>>)
              expiration == timestamp + OperatorExpiration
              operatorDataHash == OperatorDataHash(hash, operatorSeedHash, address, expiration)
              operatorSignature == SignMessage("operator", operatorDataHash)
          IN  /\ redis' = redisClient_set(redis, operatorDataHash, Hex(operatorSeed))
              /\ result' = [NoResult EXCEPT !.call = "/commit", !.args = <<address, hash>>,
                              !.json = Json(operatorDataHash, operatorSeedHash,
                                            operatorSignature, expiration)]
  /\ UNCHANGED <<chain, fetcher, signals, listener>>
  /\ UNCHANGED contractVars

\* an account sends commit() with a seed of its own and the seed hash, the
\* expiration and the signature of the last answer of /commit
RouterCommit(sender, userSeed) ==
  /\ result.call = "/commit"
  /\ result.error = <<"ok">>
  /\ logs.committed < MaxCommits
  /\ Transact("commit", sender,
              <<CommitIdOf(userSeed, result.json[2], sender, result.json[4])>>,
              commit(Ctx(commits), sender, userSeed, result.json[2], result.json[4],
                     result.json[3], blockNumber, timestamp, operatorRole))
  /\ UNCHANGED <<fetcher, signals, listener, redis, result>>

RouterCommitIds ==
  {CommitIdOf(userSeed, Keccak(<<operatorSeed>>), sender, expiration) :
     userSeed \in RouterUserSeeds, operatorSeed \in OperatorSeeds, sender \in Addresses,
     expiration \in 1..(MaxBlocks + OperatorExpiration)}

\* the contract deployed with the operator's key holding the role, the cache
\* empty and nothing asked yet
InitRouter ==
  /\ blockNumber = 1
  /\ timestamp = 1
  /\ CONFIRMATIONS = 1
  /\ commits = [id \in RouterCommitIds |-> ZeroCommit]
  /\ operatorRole = Operators
  /\ logs = [committed |-> 0, revealed |-> {}]
  /\ lastTx = NoTx
  /\ RelayerOff

NextRouter ==
  \/ \E address \in {"guest", "operator", "0xZZ", ""},
        hash \in {Keccak(<<userSeed>>) : userSeed \in RouterUserSeeds} \cup {ShortHex},
        operatorSeed \in OperatorSeeds : router_handler(address, hash, operatorSeed)
  \/ \E sender \in Addresses, userSeed \in RouterUserSeeds : RouterCommit(sender, userSeed)
  \/ Mine

SpecRouter == InitRouter /\ [][NextRouter]_vars

\* ------------------------------------------------------------ properties
Live(id) == commits[id].commitBlock # 0

LiveAfter(id) == commits'[id].commitBlock # 0

Ok(tx) == tx.err = <<"ok">>

\* the transaction of this step ran _reveal through reveal()
RevealRan(tx) == tx.op = "reveal" /\ tx.err[1] # "AccessControl"

NoEffect == commits' = commits /\ logs' = logs /\ lastTx'.events = <<>> /\ lastTx'.hooks = <<>>

\* C1: a commit made at height H gets commitBlock = H + CONFIRMATIONS; a reveal
\* run at a height below the record's commitBlock fails
\* InvalidRevealBlock(commitId, commitBlock, height) and leaves all records as
\* they were; a reveal run at exactly commitBlock with the matching seed succeeds.
C1_RevealHeight ==
  [][/\ (lastTx'.op = "commit" /\ Ok(lastTx'))
          => commits'[lastTx'.args[1]].commitBlock = blockNumber + CONFIRMATIONS
     /\ (RevealRan(lastTx') /\ Live(lastTx'.args[1]))
          => LET commitId == lastTx'.args[1]
                 operatorSeed == lastTx'.args[2]
                 stored == commits[commitId]
             IN  /\ blockNumber < stored.commitBlock
                      => /\ lastTx'.err = <<"InvalidRevealBlock", commitId,
                                            stored.commitBlock, blockNumber>>
                         /\ NoEffect
                 /\ (blockNumber = stored.commitBlock
                       /\ Keccak(<<operatorSeed>>) = stored.operatorSeedHash)
                      => Ok(lastTx') /\ ~LiveAfter(commitId)]_vars

\* a reveal succeeded at exactly the commitBlock of a record made with CONFIRMATIONS > 0
C1_Witness ==
  /\ RevealRan(lastTx) /\ Ok(lastTx)
  /\ lastTx.loaded.commitBlock = blockNumber
  /\ CONFIRMATIONS > 0

\* C2: a commitId that has been revealed never has a live record again, and no
\* commitId is revealed twice.
C2_RevealedIsTerminal ==
  [][/\ \A id \in logs.revealed : ~LiveAfter(id)
     /\ \A i \in 1..Len(lastTx'.events) :
          lastTx'.events[i].name = "SeedRevealed" => lastTx'.events[i].commitId \notin logs.revealed]_vars

\* C3: a multiReveal in which an entry fails leaves the records and the event log
\* as before the call and keeps no event and no hook invocation of any entry.
C3_MultiRevealAtomic ==
  [][(lastTx'.op = "multiReveal" /\ ~Ok(lastTx')) => NoEffect]_vars

\* a batch of two failed at its second entry, after the first entry had been revealed
C3_Witness ==
  /\ lastTx.op = "multiReveal" /\ ~Ok(lastTx)
  /\ lastTx.args = <<2>> /\ lastTx.done = 1

\* the signature is the operator-capable signer's signature over commitId
OperatorSigned(signature, commitId) ==
  \E signer \in operatorRole : signature = SignMessage(signer, commitId)

\* C4: a commit that passes the duplicate and expiration checks creates the
\* record when its signature is an operator's signature over the commitId and
\* otherwise fails InvalidCommitSignature(commitId) without effect; a record
\* only ever appears through a commit carrying an operator's signature over its id.
C4_OperatorSigned ==
  [][/\ lastTx'.op = "commit" =>
          \A userSeed \in UserSeeds, operatorSeedHash \in SeedHashes,
             expiration \in Expirations, signature \in Signatures :
            LET sender == lastTx'.sender
                commitId == CommitIdOf(userSeed, operatorSeedHash, sender, expiration)
            IN  (/\ commitId = lastTx'.args[1]
                 /\ ~Live(commitId)
                 /\ timestamp <= expiration
                 /\ CommitTx(sender, userSeed, operatorSeedHash, expiration, signature))
                  => IF OperatorSigned(signature, commitId)
                       THEN Ok(lastTx') /\ LiveAfter(commitId)
                       ELSE lastTx'.err = <<"InvalidCommitSignature", commitId>> /\ NoEffect
     /\ \A commitId \in CommitIds :
          (~Live(commitId) /\ LiveAfter(commitId))
            => \E userSeed \in UserSeeds, operatorSeedHash \in SeedHashes,
                  expiration \in Expirations, signature \in Signatures :
                 /\ commitId = CommitIdOf(userSeed, operatorSeedHash, lastTx'.sender, expiration)
                 /\ CommitTx(lastTx'.sender, userSeed, operatorSeedHash, expiration, signature)
                 /\ OperatorSigned(signature, commitId)]_vars

\* a commit was refused for its signature while an account holds the operator role
C4_Witness ==
  /\ lastTx.op = "commit"
  /\ lastTx.err = <<"InvalidCommitSignature", lastTx.args[1]>>
  /\ operatorRole # {}

\* C5: a commit whose commitId has a live record fails
\* CommitAlreadyExists(commitId), leaves the record (its commitBlock included)
\* unchanged and emits no SeedCommitted.
C5_DuplicateCommit ==
  [][(lastTx'.op = "commit" /\ Live(lastTx'.args[1]))
       => lastTx'.err[1] = "CommitAlreadyExists" /\ NoEffect]_vars

\* a duplicate was refused in a block after the one of the first commit
C5_Witness ==
  /\ lastTx.op = "commit"
  /\ lastTx.err[1] = "CommitAlreadyExists"
  /\ commits[lastTx.args[1]].commitBlock < blockNumber + CONFIRMATIONS

\* C6: a reveal of a commitId without a live record, never committed or already
\* revealed, fails CommitDoesNotExist(commitId) and changes nothing.
C6_UnknownCommit ==
  [][(RevealRan(lastTx') /\ ~Live(lastTx'.args[1]))
       => lastTx'.err = <<"CommitDoesNotExist", lastTx'.args[1]>> /\ NoEffect]_vars

\* a reveal of a commitId that had been revealed before was refused
C6_Witness ==
  /\ RevealRan(lastTx)
  /\ lastTx.err[1] = "CommitDoesNotExist"
  /\ lastTx.args[1] \in logs.revealed

\* C7: a reveal of a live commitId at a height >= commitBlock with a seed whose
\* hash is not the stored operatorSeedHash fails
\* InvalidOperatorSeed(commitId, operatorSeedHash, operatorSeed) and leaves the
\* record as it was, and a reveal with the matching seed at such a height succeeds.
C7_SeedMismatch ==
  [][(RevealRan(lastTx') /\ Live(lastTx'.args[1])
        /\ blockNumber >= commits[lastTx'.args[1]].commitBlock)
       => LET commitId == lastTx'.args[1]
              operatorSeed == lastTx'.args[2]
              stored == commits[commitId]
          IN  IF Keccak(<<operatorSeed>>) # stored.operatorSeedHash
                THEN /\ lastTx'.err = <<"InvalidOperatorSeed", commitId,
                                        stored.operatorSeedHash, operatorSeed>>
                     /\ NoEffect
                ELSE Ok(lastTx') /\ ~LiveAfter(commitId)]_vars

\* a reveal with a wrong seed was refused and its record is still live and ready
C7_Witness ==
  /\ RevealRan(lastTx)
  /\ lastTx.err[1] = "InvalidOperatorSeed"
  /\ Live(lastTx.args[1])
  /\ blockNumber >= commits[lastTx.args[1]].commitBlock

\* C8: a commit that is not a duplicate fails ExpiredCommitSignature(commitId)
\* exactly when block.timestamp > expiration (equal is accepted), and a failed
\* commit creates no record and emits no event.
C8_Expiration ==
  [][/\ lastTx'.op = "commit" =>
          \A userSeed \in UserSeeds, operatorSeedHash \in SeedHashes,
             expiration \in Expirations, signature \in Signatures :
            LET sender == lastTx'.sender
                commitId == CommitIdOf(userSeed, operatorSeedHash, sender, expiration)
            IN  (/\ commitId = lastTx'.args[1]
                 /\ ~Live(commitId)
                 /\ CommitTx(sender, userSeed, operatorSeedHash, expiration, signature))
                  => /\ (lastTx'.err = <<"ExpiredCommitSignature", commitId>>)
                          <=> (timestamp > expiration)
                     /\ (timestamp = expiration /\ OperatorSigned(signature, commitId))
                          => Ok(lastTx') /\ LiveAfter(commitId)
     /\ (lastTx'.op = "commit" /\ ~Ok(lastTx')) => NoEffect]_vars

\* a commit was accepted at a ledger time equal to its expiration
C8_Witness ==
  /\ lastTx.op = "commit" /\ Ok(lastTx)
  /\ lastTx.events[1].commitId[2][4] = timestamp

\* C9: a reveal or multiReveal sent by an account without the operator role
\* fails and changes nothing, whatever its arguments.
C9_OperatorOnly ==
  [][(lastTx'.op \in {"reveal", "multiReveal"} /\ lastTx'.sender \notin operatorRole)
       => lastTx'.err = <<"AccessControl", lastTx'.sender>> /\ NoEffect]_vars

\* an account without the role was refused a reveal of a live, ready record with its seed
C9_Witness ==
  /\ lastTx.op = "reveal"
  /\ lastTx.sender \notin operatorRole
  /\ ~Ok(lastTx)
  /\ Live(lastTx.args[1])
  /\ blockNumber >= commits[lastTx.args[1]].commitBlock
  /\ Keccak(<<lastTx.args[2]>>) = commits[lastTx.args[1]].operatorSeedHash

\* C10: a successful reveal deletes the record, emits exactly one
\* SeedRevealed(commitId, operatorSeed, randomSeed) and calls revealCallback
\* exactly once with (commitId, randomSeed), and the callback finds the record
\* already deleted.
C10_RevealEffects ==
  [][(lastTx'.op = "reveal" /\ Ok(lastTx'))
       => LET commitId == lastTx'.args[1]
              operatorSeed == lastTx'.args[2]
          IN  /\ Live(commitId) /\ commits'[commitId] = ZeroCommit
              /\ \A other \in CommitIds \ {commitId} : commits'[other] = commits[other]
              /\ Len(lastTx'.events) = 1
              /\ lastTx'.events[1].name = "SeedRevealed"
              /\ lastTx'.events[1].commitId = commitId
              /\ lastTx'.events[1].operatorSeed = operatorSeed
              /\ Len(lastTx'.hooks) = 1
              /\ lastTx'.hooks[1].commitId = commitId
              /\ lastTx'.hooks[1].randomSeed = lastTx'.events[1].randomSeed
              /\ lastTx'.hooks[1].commit = ZeroCommit]_vars

\* a reveal succeeded while another record stayed live
C10_Witness ==
  /\ lastTx.op = "reveal" /\ Ok(lastTx)
  /\ \E other \in CommitIds : Live(other)

\* the hash of the requester's seed, as it is packed into the commitId
UserSeedHashOf(commitId) == commitId[2][1]

\* C11 as stated: the userSeed field of every live record and the second field
\* of the SeedCommitted event are the hash of the requester's seed, not the seed.
C11_OnlyHashOnLedger ==
  /\ \A id \in CommitIds : Live(id) => commits[id].userSeed = UserSeedHashOf(id)
  /\ (lastTx.op = "commit" /\ Ok(lastTx))
       => lastTx.events[1].userSeed = UserSeedHashOf(lastTx.events[1].commitId)

\* C11 amended: the userSeed field of every live record and the second field of
\* the SeedCommitted event are the requester's seed itself as passed to commit();
\* its hash is only what the commitId is computed over.
C11_SeedOnLedger ==
  /\ \A id \in CommitIds :
       Live(id) => /\ commits[id].userSeed \in UserSeeds
                   /\ Keccak(<<commits[id].userSeed>>) = UserSeedHashOf(id)
  /\ (lastTx.op = "commit" /\ Ok(lastTx))
       => /\ Len(lastTx.events) = 1
          /\ lastTx.events[1].name = "SeedCommitted"
          /\ lastTx.events[1].userSeed \in UserSeeds
          /\ Keccak(<<lastTx.events[1].userSeed>>) = UserSeedHashOf(lastTx.events[1].commitId)
          /\ lastTx.events[1].userSeed = commits[lastTx.events[1].commitId].userSeed

\* a commit has just created a record that is still waiting for its commitBlock
C11_Witness ==
  /\ lastTx.op = "commit" /\ Ok(lastTx)
  /\ Live(lastTx.args[1])
  /\ blockNumber < commits[lastTx.args[1]].commitBlock

\* C12: the randomSeed of a successful reveal is the hash of (the userSeed of
\* the record, the operatorSeed supplied, the hash of the block before the
\* reveal block), and it differs from the randomSeed the same two seeds give
\* with the previous-block hash of any other height.
C12_RandomSeed ==
  [][(lastTx'.op = "reveal" /\ Ok(lastTx'))
       => LET userSeed == commits[lastTx'.args[1]].userSeed
              operatorSeed == lastTx'.args[2]
              randomSeed == lastTx'.events[1].randomSeed
          IN  /\ randomSeed = Keccak(<<userSeed, operatorSeed, BlockHash(blockNumber - 1)>>)
              /\ \A number \in 1..MaxBlocks :
                   BlockHash(number - 1) # BlockHash(blockNumber - 1)
                     => randomSeed # Keccak(<<userSeed, operatorSeed, BlockHash(number - 1)>>)]_vars

\* a reveal succeeded at a height above the first one, so that other heights
\* with other previous-block hashes exist below and above it
C12_Witness ==
  /\ lastTx.op = "reveal" /\ Ok(lastTx)
  /\ blockNumber = 2
  /\ lastTx.events[1].randomSeed = Keccak(<<lastTx.loaded.userSeed, lastTx.args[2], BlockHash(1)>>)

\* C13: the commitId commit() returns is Hash(Hash(userSeed), operatorSeedHash,
\* sender, expiration): two calls with the same four arguments return the same
\* id whatever the height, the time and the records of the ledger are, and two
\* calls that differ in any of the four arguments return different ids.
C13_CommitIdPure ==
  lastTx.op = "ids"
    => LET a == lastTx.args[1]
           ida == lastTx.args[2]
           b == lastTx.args[3]
           idb == lastTx.args[4]
       IN  /\ ida = Keccak(<<Keccak(<<a.userSeed>>), a.operatorSeedHash, a.sender, a.expiration>>)
           /\ idb = Keccak(<<Keccak(<<b.userSeed>>), b.operatorSeedHash, b.sender, b.expiration>>)
           /\ a = b => ida = idb
           /\ a # b => ida # idb

\* two commits returned whose arguments differ in the expiration only
C13_Witness ==
  /\ lastTx.op = "ids"
  /\ lastTx.args[1].expiration # lastTx.args[3].expiration
  /\ [lastTx.args[1] EXCEPT !.expiration = 0] = [lastTx.args[3] EXCEPT !.expiration = 0]

\* the signals the EventFetcher emits in this step
EmittedNow == IF fetcher' = fetcher /\ signals' = signals THEN <<>> ELSE signals'.last

Named(out, name) == SelectSeq(out, LAMBDA signal : signal.name = name)

\* emit('error', message, error) of the query loops
IsWarning(signal, message) ==
  signal.name = "error" /\ Len(signal.args) = 2 /\ signal.args[1] = message

\* emit('error', args) of stop(message)
IsFatal(signal, message) ==
  signal.name = "error" /\ Len(signal.args) = 1 /\ signal.args[1] = <<message>>

\* C15: the first 'block' signal is for the start height and every further one
\* for the height after the one before, so that no height is signalled twice or
\* out of order, and the cursor never is ahead of the last height signalled.
C15_NoHeightSkipped ==
  [][/\ \A k \in 1..Len(Named(EmittedNow, "block")) :
          Named(EmittedNow, "block")[k].args[1] =
            IF signals.block = 0 THEN fetcher'._firstBlock ELSE signals.block + 1
     /\ fetcher'._lastBlock <= signals'.block]_vars

\* C16: the step that emits the 'block' signal of height h leaves _lastBlock = h
\* and emits one 'event' signal per log of h, none when h holds no log.
C16_CursorIsProcessedHeight ==
  [][\A k \in 1..Len(Named(EmittedNow, "block")) :
       LET h == Named(EmittedNow, "block")[k].args[1]
       IN  /\ fetcher'._lastBlock = h
           /\ Len(Named(EmittedNow, "event")) = Len(chain[h])]_vars

C18_OneCycle == BagCardinality(fetcher.cycles) <= 1

\* a pass of the 'block' handler whose awaited reveal attempt is answered in this step
Attempted(handler) ==
  /\ handler.kind = "block"
  /\ handler.pc = "revealCommit"
  /\ CopiesIn(handler, listener'.handlers) < CopiesIn(handler, listener.handlers)

\* C19: once the reveal attempt that a 'block' pass made for a ready pending
\* entry has returned or thrown, that entry is no longer in the pending map,
\* so that a completed pass leaves no entry behind that was ready at its signal.
C19_RemovedAfterAttempt ==
  [][\A handler \in BagToSet(listener.handlers) :
       Attempted(handler) => ~Has(listener'.pendingCommits, handler.commitId)]_vars

\* the reveals the scheduler has submitted for commitId
Submissions(commitId) ==
  Cardinality({k \in 1..Len(listener.submitted) : listener.submitted[k] = commitId})

\* C20: over a run the scheduler submits at most one reveal for a commitId.
C20_AtMostOneSubmission == Submissions(RelayerCommitId) <= 1

\* the commit of this block was created while the watcher was scanning from a
\* height at or below it, and the ledger can still produce the next block
CommitCreated ==
  /\ lastTx.op = "commit"
  /\ Ok(lastTx)
  /\ listener.attached
  /\ fetcher._firstBlock \in 1..blockNumber
  /\ blockNumber < MaxBlocks

\* the scheduler's reveal of the commit has succeeded
Revealed == RelayerCommitId \in logs.revealed /\ ~Live(RelayerCommitId)

\* the ledger has reached its last height with the commit in the pending map,
\* where the 'block' signal of any further block makes the scheduler reveal it
WaitsForNextBlock ==
  /\ blockNumber = MaxBlocks
  /\ Has(listener.pendingCommits, RelayerCommitId)

\* C14: a commit created on the ledger while the relayer runs is eventually
\* revealed by the scheduler alone, SeedRevealed being logged for its commitId
\* and the record deleted; on the bounded ledger it may instead end in the
\* pending map, waiting for a block signal past the last height.
C14_EventuallyRevealed == [](CommitCreated => <>(Revealed \/ WaitsForNextBlock))

\* the cycles waiting for queryFilter() that this step takes away
EventsQueried ==
  {cycle \in BagToSet(fetcher.cycles) :
     /\ cycle.pc = "queryFilter"
     /\ CopiesIn(cycle, fetcher'.cycles) < CopiesIn(cycle, fetcher.cycles)}

\* C26: the third consecutive failure of the event query of a cycle for height
\* h emits its warning, the fatal 'error' and 'stop', clears the timer, emits
\* no 'block' and no 'event' signal and leaves the cursor where it was; the
\* first and the second failure only emit the warning and query again.
C26_EventQueryRetry ==
  [][LET out == EmittedNow
         failed == {cycle \in EventsQueried :
                      Len(out) > 0 /\ IsWarning(out[1], CantGetEvents(cycle.blockNumber))}
     IN  \A cycle \in failed :
           /\ Named(out, "block") = <<>>
           /\ Named(out, "event") = <<>>
           /\ fetcher'._lastBlock = fetcher._lastBlock
           /\ IF cycle.errors + 1 < 3
                THEN /\ Len(out) = 1
                     /\ fetcher'._timer = fetcher._timer
                     /\ fetcher'.cycles = With(Without(fetcher.cycles, cycle),
                                               [cycle EXCEPT !.errors = @ + 1])
                ELSE /\ Len(out) = 3
                     /\ IsFatal(out[2], "Too many errors trying to get the block events")
                     /\ out[3].name = "stop"
                     /\ fetcher'._timer = "cleared"
                     /\ fetcher'.cycles = Without(fetcher.cycles, cycle)]_vars

\* the third failed queryFilter() of a cycle has stopped the watcher before any
\* height was handled
C26_Witness ==
  /\ Len(signals.last) = 3
  /\ IsFatal(signals.last[2], "Too many errors trying to get the block events")
  /\ fetcher._timer = "cleared"
  /\ fetcher._lastBlock = 0
  /\ signals.block = 0

\* the arguments of the 'event' signal of a log of height h
EventArgs(event, h) ==
  <<event.commitId, event.userSeed, event.operatorSeedHash, event.commitOwner,
    [blockNumber |-> h]>>

\* C27: a step that emits a 'block' or an 'event' signal emits the 'block'
\* signal of one height h first and then one 'event' signal per SeedCommitted
\* log of h, in the order of the logs in the block, and nothing else.
C27_BlockThenEventsInOrder ==
  [][LET out == EmittedNow
     IN  (Named(out, "block") # <<>> \/ Named(out, "event") # <<>>)
           => /\ out[1].name = "block"
              /\ LET h == out[1].args[1]
                 IN  /\ h \in 1..getBlockNumber
                     /\ Len(out) = 1 + Len(chain[h])
                     /\ \A k \in 1..Len(chain[h]) :
                          /\ out[k + 1].name = "event"
                          /\ out[k + 1].args = EventArgs(chain[h][k], h)]_vars

\* a block with two logs was handled: 'block', then the two 'event' signals in
\* the order of the block, which is not the order the commits were named in
C27_Witness ==
  /\ Len(signals.last) = 3
  /\ signals.last[1].name = "block"
  /\ signals.last[2].name = "event"
  /\ signals.last[2].args[1] = OtherEvent.commitId
  /\ signals.last[3].name = "event"
  /\ signals.last[3].args[1] = RelayerCommitId

\* C28: no step of the watcher lowers its cursor _lastBlock.
C28_CursorMonotonic == [][fetcher'._lastBlock >= fetcher._lastBlock]_vars

\* the fatal 'error' signals of stop(message) among the signals out
Fatal(out) == {k \in 1..Len(out) : out[k].name = "error" /\ Len(out[k].args) = 1}

\* C29 as stated: once the timer is cleared no polling cycle begins and no
\* 'block' or 'event' signal is emitted any more.
C29_SilentAfterStop ==
  [][fetcher._timer = "cleared"
       => /\ BagCardinality(fetcher'.cycles) <= BagCardinality(fetcher.cycles)
          /\ Named(EmittedNow, "block") = <<>>
          /\ Named(EmittedNow, "event") = <<>>]_vars

\* C29 amended: once the timer is cleared no polling cycle begins; a 'block'
\* or 'event' signal emitted after that comes from a cycle that was waiting
\* for its events when the watcher was stopped; and a step that emits a fatal
\* 'error' emits the warning of the third failure, that one fatal 'error' and
\* then 'stop', and leaves the timer cleared.
C29_NoCycleBeginsAfterStop ==
  [][LET out == EmittedNow
     IN  /\ fetcher._timer = "cleared"
              => /\ BagCardinality(fetcher'.cycles) <= BagCardinality(fetcher.cycles)
                 /\ (Named(out, "block") # <<>> \/ Named(out, "event") # <<>>)
                      => EventsQueried # {}
         /\ Fatal(out) # {}
              => /\ Fatal(out) = {2}
                 /\ Len(out) = 3
                 /\ out[1].name = "error" /\ Len(out[1].args) = 2
                 /\ out[3].name = "stop"
                 /\ fetcher'._timer = "cleared"]_vars

\* stop() was called while a cycle waited for its events, and the cycle has
\* emitted the 'block' signal of its height afterwards
C29_Witness ==
  /\ fetcher._timer = "cleared"
  /\ Named(signals.last, "block") # <<>>

\* C30: a stopped watcher is not started, so that a start() after the stop
\* takes effect; while the timer runs a start() changes nothing.
C30_StoppedIsNotStarted ==
  /\ fetcher._timer = "cleared" => ~started(fetcher)
  /\ fetcher._timer = "set" => start(fetcher, 1) = Result(fetcher, <<>>)

\* the 'event' handlers whose redisClient.get() is answered in this step
GetAnswered ==
  {handler \in BagToSet(listener.handlers) :
     /\ handler.kind = "event"
     /\ handler.pc = "get"
     /\ CopiesIn(handler, listener'.handlers) < CopiesIn(handler, listener.handlers)}

\* the entries of the pending map under one commitId
EntriesOf(pending, commitId) == SelectSeq(pending, LAMBDA entry : entry.commitId = commitId)

C21_Immediate ==
  /\ listener.pendingCommits = <<>>
  /\ \E handler \in BagToSet(listener.handlers) :
       handler.kind = "event" /\ handler.pc = "revealCommit"

\* the keys of the cache that have a value
KeysOf(store) == {entry.key : entry \in store}

\* C22: when the 'event' handler of a commit finds no value under the commitId
\* in the cache, the handler ends having submitted nothing and queued nothing,
\* the watcher is left as it is (its timer still set, no signal emitted), and
\* while the cache has no value for the commit the scheduler never submits a
\* reveal for it nor holds a pending entry for it, at any height.
C22_LostSeedDropped ==
  [][/\ \A handler \in GetAnswered :
          handler.commitId \notin KeysOf(redis) =>
            /\ listener' = [listener EXCEPT !.handlers = Without(@, handler)]
            /\ fetcher' = fetcher
            /\ signals' = signals
     /\ RelayerCommitId \notin KeysOf(redis') =>
          /\ Submissions(RelayerCommitId)' = 0
          /\ ~Has(listener'.pendingCommits, RelayerCommitId)]_vars

\* the commit was signalled to the scheduler, the cache had no seed for it and
\* the handler has ended: nothing is in progress and the watcher runs on
C22_Witness ==
  /\ RelayerCommitId \notin KeysOf(redis)
  /\ Len(Named(signals.last, "event")) = 1
  /\ Named(signals.last, "event")[1].args[1] = RelayerCommitId
  /\ listener.handlers = EmptyBag
  /\ listener.submitted = <<>>
  /\ fetcher._timer = "set"

\* C24: a call of listener() with an address that is empty or not an address
\* throws 'You must specify a valid contract address.', and one with a valid
\* address and confirmations 0 throws the message about the number of
\* confirmations; in both cases no fetcher is started, no handler is
\* registered and no signal is emitted. A call with a valid address and
\* confirmations of 1 or more returns with the handlers registered and the
\* fetcher started.
C24_InvalidConfigurationRejected ==
  [][(result'.call = "listener" /\ ~listener.attached) =>
       LET address == result'.args[1]
           confirmations == result'.args[2]
       IN  IF address \notin Addresses \cup {ZeroAddress, ContractAddress}
             THEN /\ result'.error = <<"You must specify a valid contract address.">>
                  /\ ~started(fetcher')
                  /\ ~listener'.attached
                  /\ <<fetcher, signals, listener>>' = <<fetcher, signals, listener>>
           ELSE IF confirmations < 1
             THEN /\ result'.error # <<"ok">>
                  /\ result'.error # <<"You must specify a valid contract address.">>
                  /\ ~started(fetcher')
                  /\ ~listener'.attached
                  /\ <<fetcher, signals, listener>>' = <<fetcher, signals, listener>>
           ELSE /\ result'.error = <<"ok">>
                /\ started(fetcher')
                /\ listener'.attached
                /\ listener'.confirmations = confirmations]_vars

\* listener() was called with the address of the contract and confirmations 0:
\* it threw, and there is no fetcher running and no handler registered
C24_Witness ==
  /\ result.call = "listener"
  /\ result.args = <<ContractAddress, 0>>
  /\ result.error # <<"ok">>
  /\ ~started(fetcher)
  /\ ~listener.attached

\* listener() was called with an address that is not one, and threw
C24_BadAddress ==
  /\ result.call = "listener"
  /\ result.args[1] = "0xZZ"
  /\ result.error = <<"You must specify a valid contract address.">>
  /\ ~listener.attached

\* the pending entries of commits whose record is on the ledger
Recorded ==
  {k \in 1..Len(listener.pendingCommits) : Live(listener.pendingCommits[k].commitId)}

\* C25: with scheduler and registry configured with the same confirmations
\* value, the readiness height of a pending entry equals the commitBlock of the
\* commit's record, creation height + confirmations.
C25_SameReadyHeight ==
  listener.confirmations = CONFIRMATIONS =>
    \A k \in Recorded :
      listener.pendingCommits[k].confirmationBlock
        = commits[listener.pendingCommits[k].commitId].commitBlock

\* C25 (amended): the readiness height of a pending entry is one less than the
\* commitBlock of the commit's record, creation height + confirmations - 1;
\* the reveal the scheduler sends once it has observed that height is mined
\* in a later block and never fails InvalidRevealBlock.
C25_ReadyHeightOneBelow ==
  /\ listener.confirmations = CONFIRMATIONS =>
       \A k \in Recorded :
         listener.pendingCommits[k].confirmationBlock + 1
           = commits[listener.pendingCommits[k].commitId].commitBlock
  /\ lastTx.op = "reveal" => lastTx.err[1] # "InvalidRevealBlock"

\* the commit is on the ledger and on the pending list, with the scheduler
\* configured as the registry is
C25_Witness ==
  /\ listener.confirmations = CONFIRMATIONS
  /\ Live(RelayerCommitId)
  /\ Has(listener.pendingCommits, RelayerCommitId)
  /\ commits[RelayerCommitId].commitBlock
       = Entry(listener.pendingCommits, RelayerCommitId).confirmationBlock + 1

\* C23: when the account A sends commit() with a seed whose hash is U and with
\* the seed_hash, expiration and signature that /commit answered for (A, U),
\* the commitId the contract computes (the one of the SeedCommitted event, or
\* the one a revert names) is the commit_id of the answer, the signature is
\* the operator's over that commit_id so that the commit is not rejected as
\* InvalidCommitSignature, and the cache holds under that commitId the '0x' hex
\* string of the seed whose hash is seed_hash.
C23_RouterAnswerCommits ==
  [][\A sender \in Addresses, userSeed \in RouterUserSeeds :
       (/\ RouterCommit(sender, userSeed)
        /\ sender = result.args[1]
        /\ Keccak(<<userSeed>>) = result.args[2])
       => LET commit_id == result.json[1]
              seed_hash == result.json[2]
              signature == result.json[3]
              computed == IF Ok(lastTx') THEN lastTx'.events[1].commitId ELSE lastTx'.err[2]
          IN  /\ computed = commit_id
              /\ Recover(ToEthSignedMessageHash(computed), signature) = "operator"
              /\ lastTx'.err[1] \in {"ok", "CommitAlreadyExists", "ExpiredCommitSignature"}
              /\ timestamp <= result.json[4] /\ ~Live(commit_id) => Ok(lastTx')
              /\ computed \in KeysOf(redis')
              /\ redisClient_get(redis', computed)[1] = "0x"
              /\ Keccak(<<Bytes32(redisClient_get(redis', computed))>>) = seed_hash
              /\ Ok(lastTx') => lastTx'.events[1].operatorSeedHash = seed_hash]_vars

\* the guest has committed with the answer /commit gave it: the record of the
\* answer's commit_id is on the ledger and the seed is in the cache under it
C23_Witness ==
  /\ result.call = "/commit"
  /\ result.error = <<"ok">>
  /\ lastTx.op = "commit"
  /\ Ok(lastTx)
  /\ lastTx.sender = result.args[1]
  /\ lastTx.events[1].commitId = result.json[1]
  /\ Live(result.json[1])
  /\ result.json[1] \in KeysOf(redis)

\* the signature of every commit has expired
AllExpired == \A expiration \in Expirations : timestamp > expiration

\* C33: the record of a live commitId changes only in a transaction that
\* succeeds and emits SeedRevealed for that commitId, which deletes it: no
\* commit, no failed reveal or batch and no passing of time (mining a block,
\* the expiration of the signature) deletes or modifies it; and after the
\* expiration an operator's reveal with the matching seed at a height >=
\* commitBlock still succeeds.
C33_OnlyRevealRemoves ==
  [][/\ \A id \in CommitIds :
          (Live(id) /\ commits'[id] # commits[id])
            => /\ commits'[id] = ZeroCommit
               /\ lastTx'.op \in {"reveal", "multiReveal"}
               /\ Ok(lastTx')
               /\ \E i \in 1..Len(lastTx'.events) :
                    /\ lastTx'.events[i].name = "SeedRevealed"
                    /\ lastTx'.events[i].commitId = id
     /\ (RevealRan(lastTx') /\ Live(lastTx'.args[1]) /\ AllExpired
           /\ blockNumber >= commits[lastTx'.args[1]].commitBlock
           /\ Keccak(<<lastTx'.args[2]>>) = commits[lastTx'.args[1]].operatorSeedHash)
          => Ok(lastTx') /\ ~LiveAfter(lastTx'.args[1])]_vars

\* a record was revealed after the expiration of its signature
C33_Witness ==
  /\ RevealRan(lastTx) /\ Ok(lastTx)
  /\ AllExpired
  /\ lastTx.args[1] \in logs.revealed

\* a record is live after the expiration of its signature
C33_LiveAfterExpiration == AllExpired /\ \E id \in CommitIds : Live(id)

\* C34: on a contract constructed with CONFIRMATIONS = 0 a commit that
\* succeeds stores commitBlock = the height it is made at, and a reveal by an
\* operator with the matching seed that runs at that same height succeeds and
\* deletes the record.
C34_SameBlockReveal ==
  [][CONFIRMATIONS = 0 =>
       /\ (lastTx'.op = "commit" /\ Ok(lastTx'))
            => /\ commits'[lastTx'.args[1]].commitBlock = blockNumber
               /\ LiveAfter(lastTx'.args[1])
       /\ (RevealRan(lastTx') /\ Live(lastTx'.args[1])
             /\ Keccak(<<lastTx'.args[2]>>) = commits[lastTx'.args[1]].operatorSeedHash)
            => /\ Ok(lastTx')
               /\ ~LiveAfter(lastTx'.args[1])
               /\ lastTx'.args[1] \in logs'.revealed]_vars

\* with CONFIRMATIONS = 0 a record was revealed at the height of its commit
C34_Witness ==
  /\ CONFIRMATIONS = 0
  /\ RevealRan(lastTx) /\ Ok(lastTx)
  /\ lastTx.loaded.commitBlock = blockNumber
  /\ lastTx.args[1] \in logs.revealed

\* C36: the first failing check decides the error. A reveal by an operator of
\* a live record before its commitBlock with a seed that does not match fails
\* with InvalidRevealBlock, and a commit whose id is live and whose
\* expiration has passed fails with CommitAlreadyExists; neither changes
\* anything.
C36_FirstCheckDecides ==
  [][/\ (/\ RevealRan(lastTx') /\ Live(lastTx'.args[1])
          /\ blockNumber < commits[lastTx'.args[1]].commitBlock
          /\ Keccak(<<lastTx'.args[2]>>) # commits[lastTx'.args[1]].operatorSeedHash)
         => lastTx'.err[1] = "InvalidRevealBlock" /\ NoEffect
     /\ (lastTx'.op = "commit" /\ Live(lastTx'.args[1]) /\ AllExpired)
         => lastTx'.err[1] = "CommitAlreadyExists" /\ NoEffect]_vars

\* a reveal with a wrong seed came before commitBlock
C36_Witness ==
  /\ lastTx.op = "reveal"
  /\ lastTx.err[1] = "InvalidRevealBlock"
  /\ Keccak(<<lastTx.args[2]>>) # lastTx.loaded.operatorSeedHash

\* a commit of a live id came after its expiration
C36_DuplicateExpired ==
  /\ lastTx.op = "commit"
  /\ lastTx.err[1] = "CommitAlreadyExists"
  /\ AllExpired

\* the batch that lists one reveal twice
Twice(commitId, operatorSeed) ==
  LET entry == [commitId |-> commitId, operatorSeed |-> operatorSeed]
  IN  <<entry, entry>>

\* tx is the receipt r; the error names are compared before their arguments
IsReceipt(tx, r) ==
  /\ tx.op = r.op /\ tx.sender = r.sender /\ tx.args = r.args /\ tx.done = r.done
  /\ tx.err[1] = r.err[1] /\ tx.err = r.err
  /\ tx.loaded = r.loaded /\ tx.events = r.events /\ tx.hooks = r.hooks

\* the record is live, the height has reached its commitBlock and the seed matches
Revealable(commitId, operatorSeed) ==
  /\ Live(commitId)
  /\ blockNumber >= commits[commitId].commitBlock
  /\ Keccak(<<operatorSeed>>) = commits[commitId].operatorSeedHash

\* C37: a multiReveal by an operator that lists the same revealable record
\* twice reverts with CommitDoesNotExist for that id in the second _reveal call,
\* after the first one has returned; no event is logged, no hook call stays and
\* the record is still live with the fields it had (an id that was revealed in
\* an earlier life and committed again is no more revealed than before).
C37_RepeatedEntryReverts ==
  [][\A commitId \in CommitIds, operatorSeed \in OperatorSeeds :
       (/\ lastTx'.op = "multiReveal"
        /\ lastTx'.sender \in operatorRole
        /\ Revealable(commitId, operatorSeed)
        /\ IsReceipt(lastTx', Receipt("multiReveal", lastTx'.sender, <<2>>,
                                       multiReveal(Ctx(commits), lastTx'.sender,
                                                   Twice(commitId, operatorSeed),
                                                   blockNumber, operatorRole))))
       => /\ lastTx'.err[1] = "CommitDoesNotExist"
          /\ lastTx'.err[2] = commitId
          /\ lastTx'.done = 1
          /\ NoEffect
          /\ LiveAfter(commitId)
          /\ commits'[commitId] = commits[commitId]]_vars

\* a batch of two entries failed in its second entry on a record that is live
\* and revealable with the seed the entry carried
C37_Witness ==
  /\ lastTx.op = "multiReveal"
  /\ lastTx.args = <<2>>
  /\ lastTx.done = 1
  /\ lastTx.err[1] = "CommitDoesNotExist"
  /\ Live(lastTx.err[2])
  /\ blockNumber >= commits[lastTx.err[2]].commitBlock

\* the step is the commit by sender of the payload an operator signed for owner
Replay(sender, owner, userSeed, operatorSeedHash, expiration) ==
  /\ sender # owner
  /\ lastTx'.op = "commit"
  /\ lastTx'.sender = sender
  /\ \E signer \in operatorRole :
       CommitTx(sender, userSeed, operatorSeedHash, expiration,
                SignMessage(signer, CommitIdOf(userSeed, operatorSeedHash, owner, expiration)))

\* C38 as stated: a commit by one account of the payload an operator signed
\* for another account fails with InvalidCommitSignature and changes nothing.
C38_ReplayFailsInvalidSignature ==
  [][\A sender \in Addresses, owner \in Addresses, userSeed \in UserSeeds,
        operatorSeedHash \in SeedHashes, expiration \in Expirations :
       Replay(sender, owner, userSeed, operatorSeedHash, expiration)
         => lastTx'.err[1] = "InvalidCommitSignature" /\ NoEffect]_vars

\* C38 amended: a commit by one account of the payload an operator signed for
\* another account never succeeds and changes no record; it fails with
\* CommitAlreadyExists when the sender's own id is live, else with
\* ExpiredCommitSignature when the expiration has passed, else with
\* InvalidCommitSignature for the sender's own id.
C38_ReplayCreatesNoRecord ==
  [][\A sender \in Addresses, owner \in Addresses, userSeed \in UserSeeds,
        operatorSeedHash \in SeedHashes, expiration \in Expirations :
       Replay(sender, owner, userSeed, operatorSeedHash, expiration)
         => LET commitId == CommitIdOf(userSeed, operatorSeedHash, sender, expiration)
            IN  /\ NoEffect
                /\ lastTx'.err =
                     IF Live(commitId) THEN <<"CommitAlreadyExists", commitId>>
                     ELSE IF timestamp > expiration
                       THEN <<"ExpiredCommitSignature", commitId>>
                     ELSE <<"InvalidCommitSignature", commitId>>]_vars

\* the guest's commit failed on the signature while the record the operator
\* account made with the same seeds and expiration is live
C38_Witness ==
  /\ lastTx.op = "commit"
  /\ lastTx.sender = "guest"
  /\ lastTx.err[1] = "InvalidCommitSignature"
  /\ \E userSeed \in UserSeeds, operatorSeedHash \in SeedHashes, expiration \in Expirations :
       /\ lastTx.args[1] = CommitIdOf(userSeed, operatorSeedHash, "guest", expiration)
       /\ Live(CommitIdOf(userSeed, operatorSeedHash, "operator", expiration))
       /\ timestamp <= expiration

\* a cycle is inside _queryBlockNumber
Querying(f) == \E cycle \in BagToSet(f.cycles) : cycle.pc = "getBlockNumber"

\* C39: an invocation of _queryBlockNumber returns with the first attempt that
\* getBlockNumber() resolves, whatever the height it resolves to, and with the
\* third attempt that it rejects.
C39_QueryReturns ==
  [][(/\ result'.call = "getBlockNumber"
      /\ Attempts < result'.args[1]
      /\ result'.json[1] \/ result'.json[3] = 3)
       => ~Querying(fetcher')]_vars

\* getBlockNumber() resolved to 0 MaxAttempts times and the invocation is
\* still in its loop
C39_StillQuerying ==
  /\ result.call = "getBlockNumber"
  /\ result.args = <<MaxAttempts>>
  /\ result.json = <<TRUE, 0, 0>>
  /\ Querying(fetcher)

\* C35: with the listener started with the contract's CONFIRMATIONS >= 1, the
\* height the 'block' handler has observed is below the height transactions
\* execute at, a handler enters revealCommit for a live record only when the
\* observed height is at least commitBlock - 1 (the height of the commit +
\* CONFIRMATIONS - 1), and no reveal of the scheduler fails with
\* InvalidRevealBlock.
C35_NeverPremature ==
  [][(listener'.attached /\ listener'.confirmations = CONFIRMATIONS /\ CONFIRMATIONS >= 1)
       => /\ listener'.blockNumber < blockNumber'
          /\ Len(listener'.submitted) > Len(listener.submitted)
               => LET commitId == listener'.submitted[Len(listener'.submitted)]
                  IN  /\ Len(listener'.submitted) = Len(listener.submitted) + 1
                      /\ Live(commitId)
                           => commits[commitId].commitBlock - 1 <= listener'.blockNumber
          /\ lastTx'.op = "reveal" => lastTx'.err[1] # "InvalidRevealBlock"]_vars

\* the scheduler's reveal succeeded in the first block in which the contract
\* accepts it
C35_Witness ==
  /\ listener.attached
  /\ listener.confirmations = CONFIRMATIONS
  /\ lastTx.op = "reveal" /\ Ok(lastTx)
  /\ lastTx.loaded.commitBlock = blockNumber
  /\ listener.blockNumber = blockNumber - 1

\* the handlers that are inside revealCommit: their reveal is sent and they
\* wait for it to be mined
InFlight == {handler \in BagToSet(listener.handlers) : handler.pc = "revealCommit"}

\* C32: no two handlers that are inside revealCommit at the same time passed
\* the same nonce, the operator's transaction count each of them read when it
\* entered revealCommit, to contract.reveal().
C32_NoSharedNonce ==
  \A one \in InFlight, other \in InFlight :
    (Overrides(one) /\ Overrides(other) /\ one.nonce = other.nonce)
      => one = other /\ CopiesIn(one, listener.handlers) = 1

\* the 'event' handlers of two commits are inside revealCommit with the same
\* nonce, while no polling cycle is in progress
C32_TwoCommitsOneNonce ==
  /\ fetcher.cycles = EmptyBag
  /\ \E one \in InFlight, other \in InFlight :
       /\ one.kind = "event" /\ other.kind = "event"
       /\ one.commitId # other.commitId
       /\ Overrides(one) /\ Overrides(other)
       /\ one.nonce = other.nonce

\* the handlers of kind that are inside revealCommit after this step and were
\* not before it
Entered(kind) ==
  {handler \in InFlight' :
     /\ handler.kind = kind
     /\ CopiesIn(handler, listener'.handlers) > CopiesIn(handler, listener.handlers)}

\* the 'block' handlers whose revealCommit returned or threw in this step
Settled ==
  {handler \in InFlight :
     /\ handler.kind = "block"
     /\ CopiesIn(handler, listener'.handlers) < CopiesIn(handler, listener.handlers)}

\* keys is what is left of the keys rest after some of its first elements
LeftOf(keys, rest) ==
  /\ Len(keys) <= Len(rest)
  /\ keys = SubSeq(rest, Len(rest) - Len(keys) + 1, Len(rest))

\* C31: a step submits at most one reveal, and a 'block' handler enters
\* revealCommit either in the step in which its 'block' signal is emitted, for
\* the first ready entry, or in the step in which the revealCommit of the
\* entry it revealed before returns or throws, for a later key of its loop.
C31_SequentialPass ==
  [][/\ Len(listener'.submitted) <= Len(listener.submitted) + 1
     /\ Cardinality(Entered("block") \cup Entered("event")) <= 1
     /\ \A handler \in Entered("block") :
          \/ /\ fetcher' # fetcher
             /\ Len(Named(signals'.last, "block")) = 1
             /\ Named(signals'.last, "block")[1].args[1] = handler.blockNumber
             /\ Settled = {}
          \/ /\ fetcher' = fetcher
             /\ Cardinality(Settled) = 1
             /\ \A before \in Settled :
                  /\ LeftOf(handler.keys, before.keys)
                  /\ Len(handler.keys) < Len(before.keys)]_vars

\* the reveal of the first entry of a pass was mined and the pass is inside
\* revealCommit for its second entry
C31_Witness ==
  /\ Len(listener.submitted) >= 2
  /\ lastTx.op = "reveal" /\ Ok(lastTx)
  /\ lastTx.args[1] = listener.submitted[Len(listener.submitted) - 1]
  /\ \E handler \in InFlight :
       /\ handler.kind = "block"
       /\ handler.commitId = listener.submitted[Len(listener.submitted)]
       /\ handler.commitId # lastTx.args[1]
       /\ handler.keys = <<>>
       /\ handler.blockNumber = listener.blockNumber
       /\ Len(listener.pendingCommits) = 1
====
